---- MODULE Spec2Model ----
(***************************************************************************)
(* auto-merge-bot: one run of the action (function run of the final        *)
(* version of the action's entry file) against the platform state of one   *)
(* pull request: its comments, reviews, labels and check runs.             *)
(*                                                                         *)
(* Strings are modelled as sequences of chunks, so that concatenation      *)
(* ("@" + login, message + ourSignature), startsWith, includes and the two *)
(* case-insensitive regular expressions are computed, not assumed:         *)
(*   "@alice"  is  <<"@", "alice">>,   "[es]"  is  <<"[", "es", "]">>,      *)
(*   "/README.md"  is  <<"/", "README.md">>.                               *)
(*                                                                         *)
(* Platform calls the code makes inside a try block (pulls.get,            *)
(* removeLabel, merge, the completion comment) may fail; the code defines  *)
(* what happens then and the model follows it. Calls outside a try block   *)
(* are taken to succeed.                                                   *)
(***************************************************************************)
EXTENDS Integers, Sequences, FiniteSets, TLC

(* ------------------------------------------------------------------ *)
(* Bounds of the model                                                 *)
(* ------------------------------------------------------------------ *)
MaxComments == 2
MaxReviews == 1

(* ------------------------------------------------------------------ *)
(* Program constants                                                   *)
(* ------------------------------------------------------------------ *)
ourSignature == <<"<!-- Message About Merging -->">>
lgtmRegex == "/lgtm"
mergeRegex == "/merge"
mergeReadyLabel == "merge-ready"
needsLgtmLabel == "needs-lgtm"
needsMergeLabel == "needs-merge"
needsManualMergeLabel == "needs-manual-merge"
lgtmLabel == "lgtm"
allLabels ==
  <<mergeReadyLabel, needsLgtmLabel, needsManualMergeLabel, lgtmLabel, needsMergeLabel>>
ownersWillReviewMessage ==
  <<"Thanks for the PR!  :rocket: _Instructions:_ Approve using ", "/lgtm",
    " and mark for automatic merge by using ", "/merge", ". <!-- Base message -->">>
noOwnersMessage ==
  <<"No owners for changes found. No automatic merge is possible.">>
onlyOwnerMessage ==
  <<"Thanks for the PR! :rocket: Seems you are only owner for changes on this PR. Any user can use ",
    "/merge", " or ", "/lgtm", " to merge or approve.">>

(* ------------------------------------------------------------------ *)
(* String and array helpers (JavaScript built-ins)                     *)
(* ------------------------------------------------------------------ *)
Range(s) == {s[i] : i \in 1..Len(s)}

(* String.prototype.includes: t occurs in s as a contiguous run of chunks *)
Includes(s, t) ==
  \E i \in 0..(Len(s) - Len(t)) : SubSeq(s, i + 1, i + Len(t)) = t

(* String.prototype.startsWith for a one-chunk prefix *)
StartsWith(s, c) == Len(s) > 0 /\ s[1] = c

(* Array.prototype.includes *)
ArrIncludes(arr, x) == \E i \in 1..Len(arr) : arr[i] = x

(* the i flag of the two regular expressions: the chunk folded to lower case *)
Lower(c) ==
  CASE c = "/LGTM" -> "/lgtm"
    [] c = "/Merge" -> "/merge"
    [] OTHER -> c

(* a match that does not fold the case *)
MatchNoFold(body, regex) == \E i \in 1..Len(body) : body[i] = regex

(* body.match(regex) for the regexes /\/lgtm/i and /\/merge/i *)
Match(body, regex) == \E i \in 1..Len(body) : Lower(body[i]) = regex

(* file.startsWith("/") ? file.slice(1) : file *)
Relative(file) == IF StartsWith(file, "/") THEN Tail(file) ELSE file

(* "@" + login *)
At(login) == <<"@">> \o login

(* Set.add followed by Array.from: insertion order, no duplicates *)
AddUnique(arr, x) == IF ArrIncludes(arr, x) THEN arr ELSE Append(arr, x)

(* ------------------------------------------------------------------ *)
(* Ownership: the codeowners object is a function from a relative path *)
(* to the owner entries of the last manifest rule matching it          *)
(* ------------------------------------------------------------------ *)
getOwner(co, relative) == co[relative]

getFilesNotOwnedByCodeOwner(owner, files, co) ==
  SelectSeq(files, LAMBDA file :
    ~ArrIncludes(getOwner(co, Relative(file)), owner))

(* fileOwners.forEach((o) => { if (o.startsWith("@")) os.add(o) }) *)
RECURSIVE AddAtOwners(_, _)
AddAtOwners(os, fileOwners) ==
  IF fileOwners = <<>> THEN os
  ELSE AddAtOwners(
         IF StartsWith(Head(fileOwners), "@")
           THEN AddUnique(os, Head(fileOwners)) ELSE os,
         Tail(fileOwners))

RECURSIVE CodeOwnersFrom(_, _, _)
CodeOwnersFrom(os, files, co) ==
  IF files = <<>> THEN os
  ELSE CodeOwnersFrom(
         AddAtOwners(os, getOwner(co, Relative(Head(files)))),
         Tail(files), co)

getCodeOwners(files, co) ==
  CodeOwnersFrom(<<>>, files, co)

(* ------------------------------------------------------------------ *)
(* Signal extraction                                                   *)
(* ------------------------------------------------------------------ *)
(* isCommentValid with a condition left out or altered: what the properties *)
(* of the extractor have to tell apart from isCommentValid                   *)
CommentValidNoAuthor(body, author, regex, os, p, extra_validation) ==
  /\ ~Includes(body, ourSignature)
  /\ (Match(body, regex) \/ extra_validation)
  /\ (Len(os) = 0 \/ ArrIncludes(os, At(author)))

CommentValidNoFold(body, author, regex, os, p, extra_validation) ==
  /\ ~Includes(body, ourSignature)
  /\ (MatchNoFold(body, regex) \/ extra_validation)
  /\ (Len(os) = 0 \/ ArrIncludes(os, At(author)))
  /\ author # p.user.login

CommentValidNoMarker(body, author, regex, os, p, extra_validation) ==
  /\ (Match(body, regex) \/ extra_validation)
  /\ (Len(os) = 0 \/ ArrIncludes(os, At(author)))
  /\ author # p.user.login

CommentValidAnyone(body, author, regex, os, p, extra_validation) ==
  /\ ~Includes(body, ourSignature)
  /\ (Match(body, regex) \/ extra_validation)
  /\ author # p.user.login

CommentValidOwnersOnly(body, author, regex, os, p, extra_validation) ==
  /\ ~Includes(body, ourSignature)
  /\ (Match(body, regex) \/ extra_validation)
  /\ ArrIncludes(os, At(author))
  /\ author # p.user.login

isCommentValid(body, author, regex, os, p, extra_validation) ==
  /\ ~Includes(body, ourSignature)
  /\ (Match(body, regex) \/ extra_validation)
  /\ (Len(os) = 0 \/ ArrIncludes(os, At(author)))
  /\ author # p.user.login

Logins(items) == [i \in 1..Len(items) |-> items[i].user.login]

(* an extractor that reads the bodies alone, not the state of a review *)
getApproversByBody(cs, rs, p, os) ==
  Logins(SelectSeq(cs, LAMBDA comment :
           isCommentValid(comment.body, comment.user.login, lgtmRegex, os, p,
                          FALSE)))
  \o
  Logins(SelectSeq(rs, LAMBDA comment :
           isCommentValid(comment.body, comment.user.login, lgtmRegex, os, p,
                          FALSE)))

(* an extractor that reads the latest comment and the latest review alone *)
Latest(items) == IF items = <<>> THEN <<>> ELSE <<items[Len(items)]>>
getApproversLatest(cs, rs, p, os) ==
  Logins(SelectSeq(Latest(cs), LAMBDA comment :
           isCommentValid(comment.body, comment.user.login, lgtmRegex, os, p,
                          FALSE)))
  \o
  Logins(SelectSeq(Latest(rs), LAMBDA comment :
           isCommentValid(comment.body, comment.user.login, lgtmRegex, os, p,
                          comment.state = "APPROVED")))

getApprovers(cs, rs, p, os) ==
  Logins(SelectSeq(cs, LAMBDA comment :
           isCommentValid(comment.body, comment.user.login, lgtmRegex, os, p,
                          FALSE)))
  \o
  Logins(SelectSeq(rs, LAMBDA comment :
           isCommentValid(comment.body, comment.user.login, lgtmRegex, os, p,
                          comment.state = "APPROVED")))

hasMergeCommand(cs, rs, p, os) ==
  \/ \E i \in 1..Len(cs) :
       isCommentValid(cs[i].body, cs[i].user.login, mergeRegex, os,
                      p, FALSE)
  \/ \E i \in 1..Len(rs) :
       isCommentValid(rs[i].body, rs[i].user.login,
                      mergeRegex, os, p, FALSE)

(* ------------------------------------------------------------------ *)
(* Eligibility                                                         *)
(* ------------------------------------------------------------------ *)
(* a loop that keeps the filter of the last approver alone *)
NotApprovedByLast(approvers, files, co) ==
  IF approvers = <<>> THEN files
  ELSE getFilesNotOwnedByCodeOwner(At(approvers[Len(approvers)]), files, co)

(* approvers.forEach((approver) => { changedFilesNotApproved = ... })  *)
RECURSIVE NotApprovedBy(_, _, _)
NotApprovedBy(approvers, files, co) ==
  IF approvers = <<>> THEN files
  ELSE NotApprovedBy(Tail(approvers),
         getFilesNotOwnedByCodeOwner(At(Head(approvers)), files, co),
         co)

(* the files left after the approvers' and the PR author's files are removed *)
changedFilesNotApproved(approvers, p, co, files) ==
  getFilesNotOwnedByCodeOwner(At(p.user.login),
    NotApprovedBy(approvers, files, co), co)

(* isApproved without its first check, and without its second: what the   *)
(* properties of the evaluator have to tell apart from isApproved         *)
ApprovedWithoutEmptyCheck(cs, rs, p, co, os, files) ==
  LET approvers == getApprovers(cs, rs, p, os)
      notApproved == changedFilesNotApproved(approvers, p, co, files)
      missingOwners == getCodeOwners(notApproved, co)
  IN  IF Len(missingOwners) > 0 /\ Len(notApproved) > 0
        THEN [ok |-> FALSE, approvers |-> <<>>]
        ELSE [ok |-> TRUE, approvers |-> approvers]

ApprovedWithoutOwnerCheck(cs, rs, p, co, os, files) ==
  LET approvers == getApprovers(cs, rs, p, os)
  IN  IF Len(approvers) = 0
        THEN [ok |-> FALSE, approvers |-> <<>>]
        ELSE [ok |-> TRUE, approvers |-> approvers]

(* isApproved: the value of changedFilesNotApproved when it returns *)
unapprovedFiles(cs, rs, p, co, os, files) ==
  LET approvers == getApprovers(cs, rs, p, os)
  IN  IF Len(approvers) = 0 THEN files
      ELSE changedFilesNotApproved(approvers, p, co, files)

(* an evaluator that counts approvals: two are needed, whoever wrote them *)
ApprovedByTwoSignals(cs, rs, p, co, os, files) ==
  LET approvers == getApprovers(cs, rs, p, os)
      notApproved == changedFilesNotApproved(approvers, p, co, files)
      missingOwners == getCodeOwners(notApproved, co)
  IN  IF Len(approvers) < 2
        THEN [ok |-> FALSE, approvers |-> <<>>]
      ELSE IF Len(missingOwners) > 0 /\ Len(notApproved) > 0
        THEN [ok |-> FALSE, approvers |-> <<>>]
      ELSE [ok |-> TRUE, approvers |-> approvers]

(* The result of isApproved: ok = FALSE is the value false, ok = TRUE is  *)
(* the returned approvers array.                                          *)
isApproved(cs, rs, p, co, os, files) ==
  LET approvers == getApprovers(cs, rs, p, os)
      notApproved == changedFilesNotApproved(approvers, p, co, files)
      missingOwners == getCodeOwners(notApproved, co)
  IN  IF Len(approvers) = 0
        THEN [ok |-> FALSE, approvers |-> <<>>]
      ELSE IF Len(missingOwners) > 0 /\ Len(notApproved) > 0
        THEN [ok |-> FALSE, approvers |-> <<>>]
      ELSE [ok |-> TRUE, approvers |-> approvers]

(* ------------------------------------------------------------------ *)
(* Reviewer assignment                                                 *)
(* ------------------------------------------------------------------ *)
(* a JavaScript number that may be undefined or Number.MAX_SAFE_INTEGER *)
Num(n) == [kind |-> "num", val |-> n]
Undefined == [kind |-> "undefined", val |-> 0]
MaxSafeInteger == [kind |-> "max", val |-> 0]

(* assignedToPRs[user] *)
Lookup(assignedToPRs, user) ==
  IF user \in DOMAIN assignedToPRs THEN Num(assignedToPRs[user]) ELSE Undefined

(* x || 0 *)
OrZero(x) == IF x.kind = "num" THEN x.val ELSE 0

(* n < m for a number n; a comparison with undefined is false *)
LessThan(n, m) ==
  CASE m.kind = "max" -> TRUE
    [] m.kind = "undefined" -> FALSE
    [] OTHER -> n < m.val

(* owners.forEach((user) => { if ((assignedToPRs[user] || 0) < minPRs) ... }) *)
RECURSIVE PickAssignee(_, _, _, _)
PickAssignee(os, assignedToPRs, assignee, minPRs) ==
  IF os = <<>> THEN assignee
  ELSE IF LessThan(OrZero(Lookup(assignedToPRs, Head(os))), minPRs)
    THEN PickAssignee(Tail(os), assignedToPRs, Head(os),
                      Lookup(assignedToPRs, Head(os)))
    ELSE PickAssignee(Tail(os), assignedToPRs, assignee, minPRs)

(* the assignee chosen from the shuffled owners; <<>> is the empty string *)
assignReviewer(shuffled, assignedToPRs, p) ==
  PickAssignee(SelectSeq(shuffled, LAMBDA o : o # At(p.user.login)),
               assignedToPRs, <<>>, MaxSafeInteger)

(* the orders owners.sort(() => Math.random() - 0.5) can leave *)
Shuffles(os) ==
  {t \in [1..Len(os) -> Range(os)] : Range(t) = Range(os)}

(* ------------------------------------------------------------------ *)
(* Managed comment                                                     *)
(* ------------------------------------------------------------------ *)
botLogin == <<"github-actions[bot]">>
BotComment(body) == [user |-> [login |-> botLogin], body |-> body]

(* comments.data.find((c) => c.body.includes(ourSignature)): its index, 0 if none *)
hasPRWelcomeMessage(cs) ==
  IF \E i \in 1..Len(cs) : Includes(cs[i].body, ourSignature)
    THEN CHOOSE i \in 1..Len(cs) :
           /\ Includes(cs[i].body, ourSignature)
           /\ \A j \in 1..(i - 1) : ~Includes(cs[j].body, ourSignature)
    ELSE 0

(* welcomeMessage: the comments after it, and the createComment calls it   *)
(* starts without awaiting them                                            *)
welcomeMessage(cs, inflight, message) ==
  LET i == hasPRWelcomeMessage(cs)
  IN  IF i # 0
        THEN IF Includes(cs[i].body, message)
               THEN [comments |-> cs, pending |-> inflight]
               ELSE [comments |-> [cs EXCEPT ![i].body = message \o ourSignature],
                     pending |-> inflight]
        ELSE [comments |-> cs,
              pending |-> Append(inflight, BotComment(message \o ourSignature))]

(* sendCommentUpdate: the comments after it *)
sendCommentUpdate(cs, comment_base, extra_comment) ==
  IF comment_base # <<>>
    THEN Append(cs, BotComment(comment_base \o <<"\n\n">> \o extra_comment))
    ELSE cs

(* ------------------------------------------------------------------ *)
(* Labels                                                              *)
(* ------------------------------------------------------------------ *)
(* a push that is lost *)
PushNothing(configs, label) == configs

(* labelConfigs.push(label) *)
pushLabel(configs, label) == Append(configs, label)

(* an addLabels that attaches the first label of the target alone *)
AddFirstLabelOnly(labels, configs) ==
  IF configs = <<>> THEN labels ELSE labels \cup {Head(configs)}

(* a call that replaces the labels of the PR by the target, as setLabels *)
(* of the platform does                                                  *)
ReplaceLabels(labels, configs) == Range(configs)

(* octokit.issues.addLabels: the labels of the PR after the call *)
addLabels(labels, configs) == labels \cup Range(configs)

(* allLabels.filter((l) => !labelConfigs.includes(l)).map((l) => l.name) *)
removingLabels(configs) ==
  SelectSeq(allLabels, LAMBDA l : ~ArrIncludes(configs, l))

(* ------------------------------------------------------------------ *)
(* Check runs                                                          *)
(* ------------------------------------------------------------------ *)
GITHUB_JOB == "auto-merge-bot"
CheckNames == {"build", "lint", GITHUB_JOB}
QueuedRun == [status |-> "queued", conclusion |-> "null"]
RunningRun == [status |-> "in_progress", conclusion |-> "null"]
Conclusions == {"success", "neutral", "failure"}
CompletedRun(c) == [status |-> "completed", conclusion |-> c]

(* the check runs listed for the PR head when a run starts. build is queued *)
(* and lint is running. The entry under the name of the bot's job is the    *)
(* job of this run, in progress, when the event is on the pull request; a   *)
(* run started by issue_comment is not a check of the PR head, and the      *)
(* entry is the job of an earlier run, which exited 1.                      *)
OwnRun(event) ==
  IF event = "issue_comment" THEN CompletedRun("failure") ELSE RunningRun
InitialRuns(event) ==
  [n \in CheckNames |->
     IF n = GITHUB_JOB THEN OwnRun(event)
     ELSE IF n = "lint" THEN RunningRun ELSE QueuedRun]
(* how a check run can complete: build in any way, lint with success *)
Outcomes(n) == IF n = "lint" THEN {"success"} ELSE Conclusions

(* a failedRun that is looked for only once no check run is in progress *)
FailedOnceNoneRuns(runs) ==
  /\ \A n \in DOMAIN runs : runs[n].status = "in_progress" => n = GITHUB_JOB
  /\ \E n \in DOMAIN runs :
       /\ runs[n].status = "completed"
       /\ runs[n].conclusion \notin {"success", "neutral"}
       /\ n # GITHUB_JOB

(* an inprogressRun that does not leave out the bot's own job *)
InProgressAnyName(runs) == \E n \in DOMAIN runs : runs[n].status = "in_progress"

inprogressRun(runs) ==
  \E n \in DOMAIN runs : runs[n].status = "in_progress" /\ n # GITHUB_JOB

failedRun(runs) ==
  \E n \in DOMAIN runs :
    /\ runs[n].status = "completed"
    /\ runs[n].conclusion \notin {"success", "neutral"}
    /\ n # GITHUB_JOB

(* ------------------------------------------------------------------ *)
(* State                                                               *)
(* ------------------------------------------------------------------ *)
VARIABLES
  pc,              \* position of run
  pr,              \* the pull request: pr.user.login
  codeowners,      \* relative path -> owner entries (the manifest, resolved)
  changedFiles,    \* getChangedFiles: the paths, each with its leading "/"
  eventName,       \* context.eventName
  payload,         \* context.payload
  prComments,      \* issue comments of the PR, oldest first
  prReviews,       \* reviews of the PR, oldest first
  pending,         \* createComment calls started and not awaited
  prLabels,        \* labels attached to the PR
  repoLabels,      \* labels that exist in the repository
  prAssignees,     \* logins assigned to the PR
  checkRuns,       \* check runs on the PR head: name -> status, conclusion
  merged,          \* the platform merged the PR
  mergeCalls,      \* number of pulls.merge calls issued
  mergeMethod,     \* the merge_method input and the method of the merge call
  openPullRequests, \* assignReviewer: open PRs per assignee login, once listed
  owners,          \* run: owners
  approverOwners,  \* run: approverOwners
  commentMessage,  \* run: commentMessage
  labelConfigs,    \* run: labelConfigs
  approvers,       \* isApproved: the result of getApprovers
  approved,        \* run: the result of isApproved
  mergeCommand,    \* run: the result of hasMergeCommand
  checkSuiteGreen, \* run: the result of isCheckSuiteGreen, "pending" before it
  removing,        \* setLabels: the labels still to remove
  ret,             \* setLabels: where run continues after it
  fileIdx,         \* catch block: index of the changed file looked at
  failed,          \* core.setFailed was called
  exitCode,        \* exit status of the process, -1 while it runs
  outcome,         \* how the run ended
  priorLabels      \* the labels attached to the PR when the run started

vars ==
  <<pc, pr, codeowners, changedFiles, eventName, payload, prComments, prReviews,
    pending, prLabels, repoLabels, prAssignees, checkRuns, merged, mergeCalls, mergeMethod, openPullRequests,
    owners, approverOwners, commentMessage, labelConfigs, approved, mergeCommand,
    removing, ret, fileIdx, failed, exitCode, outcome, approvers, checkSuiteGreen,
    priorLabels>>

inputs == <<pr, codeowners, changedFiles, eventName, payload, priorLabels>>
platform ==
  <<prComments, prReviews, pending, prLabels, repoLabels, prAssignees, checkRuns,
    merged, mergeCalls, mergeMethod, openPullRequests>>
locals ==
  <<owners, approverOwners, commentMessage, labelConfigs, approvers, approved,
    mergeCommand, checkSuiteGreen, removing, ret, fileIdx, failed>>

(* ------------------------------------------------------------------ *)
(* Inputs of a run                                                     *)
(* ------------------------------------------------------------------ *)
alice == <<"alice">>
bob == <<"bob">>
carol == <<"carol">>
Users == {alice, bob, carol}
Signallers == {alice, carol}
Authors == {alice, bob}

README == <<"/", "README.md">>
WORKFLOW == <<"/", ".github/workflows", "/ci.yml">>
ChangedFileSets == {<<README>>, <<README, WORKFLOW>>}

(* owner entries of a manifest rule: principals and bracketed labels *)
OwnerEntries(file) ==
  IF file = README
    THEN {<<>>, <<At(alice)>>, <<At(bob), <<"[", "es", "]">>>>, <<At(alice), At(bob)>>}
    ELSE {<<>>, <<At(carol)>>}
(* the manifests; a path that is not changed is never resolved, and has no rule *)
Manifests(files) ==
  {co \in [{Relative(README), Relative(WORKFLOW)} ->
             OwnerEntries(README) \cup OwnerEntries(WORKFLOW)] :
     \A f \in {README, WORKFLOW} :
       co[Relative(f)] \in IF ArrIncludes(files, f) THEN OwnerEntries(f) ELSE {<<>>}}

(* the comment and review histories of the run: the commands of an owner,  *)
(* of a user the manifest does not name, and the bot's managed comment       *)
UserBodies == {<<"/lgtm">>, <<"/merge">>, <<"/LGTM", " ", "/Merge">>}
Comment(u, b) == [user |-> [login |-> u], body |-> b]
Review(u, b, st) == [user |-> [login |-> u], body |-> b, state |-> st]
CommentChoices ==
  { Comment(alice, <<"/lgtm">>),
    Comment(carol, <<"/Merge">>),
    BotComment(ownersWillReviewMessage \o ourSignature) }
ReviewChoices ==
  { Review(alice, <<>>, "APPROVED") }

(* the histories the extractor and the evaluator are applied to: every body  *)
(* from a user who, with the author and the manifest, is in turn the author, *)
(* an owner, or a user the manifest does not name                            *)
AllCommentChoices ==
  {Comment(u, b) : u \in Signallers, b \in UserBodies}
    \cup {BotComment(ownersWillReviewMessage \o ourSignature)}
AllReviewChoices ==
  {Review(u, <<>>, "APPROVED") : u \in Signallers}
    \cup {Review(u, <<"/merge">>, "COMMENTED") : u \in Signallers}
    \cup {Review(alice, <<"> ">> \o ourSignature, "APPROVED")}

SeqsUpTo(S, n) == UNION {[1..k -> S] : k \in 0..n}

(* the labels a PR carries when a run starts: a label of its users, and what *)
(* an earlier run left                                                       *)
PriorLabelSets ==
  { {"bug"},
    {"bug", needsLgtmLabel},
    {"bug", lgtmLabel, mergeReadyLabel, needsManualMergeLabel} }

(* openPullRequests: how many open PRs each assigned login has *)
OpenAssignments ==
  {<<>>} \cup {f \in [{bob, carol} -> 1..2] : f[bob] # f[carol]}

(* the payload of the event that started the run *)
Payloads(event, cs, rs) ==
  CASE event = "pull_request_target" ->
         {[pull_request |-> TRUE]}
    [] event = "issue_comment" ->
         IF cs # <<>> /\ cs[Len(cs)].user.login # botLogin
           THEN {[issue |-> TRUE,
                  comment |-> [body |-> cs[Len(cs)].body],
                  sender |-> cs[Len(cs)].user]}
           ELSE {}
    [] OTHER ->
         IF rs # <<>>
           THEN {[pull_request |-> TRUE,
                  review |-> [body |-> rs[Len(rs)].body, isNull |-> n],
                  sender |-> rs[Len(rs)].user] :
                   n \in IF rs[Len(rs)].body = <<>> THEN BOOLEAN ELSE {FALSE}}
           ELSE {}

(* the state of a run that has not started *)
NotStarted ==
  /\ pending = <<>>
  /\ repoLabels = prLabels
  /\ prAssignees = {}
  /\ merged = FALSE
  /\ mergeCalls = 0
  /\ mergeMethod = [input |-> "", call |-> "none"]
  /\ openPullRequests = <<>>
  /\ owners = <<>>
  /\ approverOwners = <<>>
  /\ commentMessage = <<>>
  /\ labelConfigs = <<>>
  /\ approvers = <<>>
  /\ approved = [ok |-> FALSE, approvers |-> <<>>]
  /\ mergeCommand = FALSE
  /\ checkSuiteGreen = "pending"
  /\ priorLabels = prLabels
  /\ removing = <<>>
  /\ ret = "none"
  /\ fileIdx = 1
  /\ failed = FALSE
  /\ exitCode = -1
  /\ outcome = "running"

Fresh == NotStarted /\ checkRuns = InitialRuns(eventName)

Init ==
  /\ pc = "setup"
  /\ pr \in {[user |-> [login |-> a]] : a \in Authors}
  /\ changedFiles \in ChangedFileSets
  /\ codeowners \in Manifests(changedFiles)
  /\ prComments \in SeqsUpTo(CommentChoices, MaxComments)
  /\ prReviews \in SeqsUpTo(ReviewChoices, MaxReviews)
  /\ eventName \in {"pull_request_target", "issue_comment", "pull_request_review"}
  /\ payload \in Payloads(eventName, prComments, prReviews)
  /\ prLabels \in PriorLabelSets
  /\ Fresh

(* the inputs the extractor and the evaluator are applied to *)
InitEval ==
  /\ pc = "evalOwners"
  /\ pr \in {[user |-> [login |-> a]] : a \in Authors}
  /\ changedFiles = <<README, WORKFLOW>>
  /\ codeowners \in Manifests(changedFiles)
  /\ prComments \in SeqsUpTo(AllCommentChoices, MaxComments)
  /\ prReviews \in SeqsUpTo(AllReviewChoices, MaxReviews)
  /\ eventName = "pull_request_target"
  /\ payload = [pull_request |-> TRUE]
  /\ prLabels = {}
  /\ Fresh

(* ------------------------------------------------------------------ *)
(* The run                                                             *)
(* ------------------------------------------------------------------ *)
(* process.exit(code), or the end of run *)
Exit(code, how) ==
  /\ pc' = "done"
  /\ exitCode' = code
  /\ outcome' = how

(* run, setup: the pull request is fetched when the event is on an issue, *)
(* then the changed files and their owners                                *)
Setup ==
  /\ pc = "setup"
  /\ owners' = getCodeOwners(changedFiles, codeowners)
  /\ pc' = "event"
  /\ UNCHANGED <<inputs, platform, approverOwners, commentMessage, labelConfigs,
                 approvers, approved, mergeCommand, checkSuiteGreen, removing, ret, fileIdx, failed, exitCode,
                 outcome>>

(* run, setup: pulls.get fails (the issue is no pull request): return *)
SetupNotPullRequest ==
  /\ pc = "setup"
  /\ "issue" \in DOMAIN payload
  /\ Exit(0, "not_a_pull_request")
  /\ UNCHANGED <<inputs, platform, locals>>

(* run, pull_request_target: welcome the PR unless it is welcomed already *)
Welcome ==
  /\ pc = "event"
  /\ eventName = "pull_request_target"
  /\ IF hasPRWelcomeMessage(prComments) # 0
       THEN UNCHANGED <<owners, prAssignees, prComments, pending, openPullRequests>>
       ELSE \E assign_reviewer \in BOOLEAN :
              IF assign_reviewer
                THEN \E shuffled \in Shuffles(owners) :
                     \E assignedToPRs \in OpenAssignments :
                       LET assignee == assignReviewer(shuffled, assignedToPRs, pr)
                           message ==
                             IF assignee # <<>>
                               THEN ownersWillReviewMessage
                                      \o <<" Assigned reviewer: ">> \o assignee
                               ELSE ownersWillReviewMessage
                                      \o <<" No automatic reviewer could be found.">>
                           w == welcomeMessage(prComments, pending, message)
                       IN  /\ owners' = shuffled
                           /\ openPullRequests' = assignedToPRs
                           /\ prAssignees' =
                                IF assignee # <<>>
                                  THEN prAssignees \cup {Tail(assignee)}
                                  ELSE prAssignees
                           /\ prComments' = w.comments
                           /\ pending' = w.pending
                ELSE LET w == welcomeMessage(prComments, pending,
                                             ownersWillReviewMessage)
                     IN  /\ prComments' = w.comments
                         /\ pending' = w.pending
                         /\ UNCHANGED <<owners, prAssignees, openPullRequests>>
  /\ pc' = "owners"
  /\ UNCHANGED <<inputs, prReviews, prLabels, repoLabels, checkRuns, merged,
                 mergeCalls, mergeMethod, approverOwners, commentMessage, labelConfigs, approvers, approved,
                 mergeCommand, checkSuiteGreen, removing, ret, fileIdx, failed, exitCode, outcome>>

(* getPayloadBody: the body of the comment or of the review; null throws *)
PayloadHasBody ==
  IF "comment" \in DOMAIN payload THEN TRUE ELSE ~payload.review.isNull
getPayloadBody ==
  IF "comment" \in DOMAIN payload THEN payload.comment.body ELSE payload.review.body

(* context.payload.state; the payload has no such field *)
PayloadState == IF "state" \in DOMAIN payload THEN payload.state ELSE "undefined"

(* run, other events: the acknowledgement of the triggering comment or review *)
Acknowledge ==
  /\ pc = "event"
  /\ eventName # "pull_request_target"
  /\ PayloadHasBody
  /\ LET body == getPayloadBody
         sender == payload.sender.login
         isApprovalComment ==
           isCommentValid(body, sender, lgtmRegex, owners, pr,
                          PayloadState = "APPROVED")
         isMergeComment == isCommentValid(body, sender, mergeRegex, owners, pr, FALSE)
     IN  commentMessage' =
           IF isApprovalComment /\ isMergeComment
             THEN <<"Approval and merge request received from ">> \o At(sender)
                    \o <<"! :white_check_mark:">>
           ELSE IF isApprovalComment
             THEN <<"Approval received from ">> \o At(sender)
                    \o <<"! :white_check_mark:">>
           ELSE IF isMergeComment
             THEN <<"Merge request received from ">> \o At(sender)
                    \o <<"! :white_check_mark:">>
           ELSE commentMessage
  /\ pc' = "owners"
  /\ UNCHANGED <<inputs, platform, owners, approverOwners, labelConfigs, approvers, approved,
                 mergeCommand, checkSuiteGreen, removing, ret, fileIdx, failed, exitCode, outcome>>

(* getPayloadBody throws inside run: the promise of run is rejected and      *)
(* nothing handles it; the exit status is the runtime's (0 where an          *)
(* unhandled rejection only warns, 1 where it is raised as an exception and  *)
(* the uncaughtException handler calls core.setFailed)                       *)
NoBody ==
  /\ pc = "event"
  /\ eventName # "pull_request_target"
  /\ ~PayloadHasBody
  /\ \E code \in {0, 1} : Exit(code, "no_body") /\ failed' = (code = 1)
  /\ UNCHANGED <<inputs, platform, owners, approverOwners, commentMessage, labelConfigs,
                 approvers, approved, mergeCommand, checkSuiteGreen, removing, ret, fileIdx>>

(* run: no owner of the changed files, the short-circuit *)
NoOwners ==
  /\ pc = "owners"
  /\ Len(owners) = 0
  /\ LET w == welcomeMessage(prComments, pending, noOwnersMessage)
     IN  /\ prComments' = w.comments
         /\ pending' = w.pending
  /\ Exit(0, "no_owners")
  /\ UNCHANGED <<inputs, prReviews, prLabels, repoLabels, prAssignees, checkRuns,
                 merged, mergeCalls, mergeMethod, openPullRequests, locals>>

(* run: approverOwners and the status comment *)
StatusComment ==
  /\ pc = "owners"
  /\ Len(owners) # 0
  /\ approverOwners' = SelectSeq(owners, LAMBDA o : o # At(pr.user.login))
  /\ LET w == welcomeMessage(prComments, pending,
                IF Len(approverOwners') = 0
                  THEN onlyOwnerMessage ELSE ownersWillReviewMessage)
     IN  /\ prComments' = w.comments
         /\ pending' = w.pending
  /\ pc' = "approve"
  /\ UNCHANGED <<inputs, prReviews, prLabels, repoLabels, prAssignees, checkRuns,
                 merged, mergeCalls, mergeMethod, openPullRequests, owners, commentMessage, labelConfigs, approvers, approved,
                 mergeCommand, checkSuiteGreen, removing, ret, fileIdx, failed, exitCode, outcome>>

(* a createComment call that was not awaited reaches the platform *)
DeliverComment ==
  /\ pending # <<>>
  /\ prComments' = Append(prComments, Head(pending))
  /\ pending' = Tail(pending)
  /\ UNCHANGED <<inputs, prReviews, prLabels, repoLabels, prAssignees, checkRuns,
                 merged, mergeCalls, mergeMethod, openPullRequests, locals, pc, exitCode, outcome>>

(* run: isApproved; not approved sets needs-lgtm and reconciles *)
Evaluate ==
  /\ pc = "approve"
  /\ approvers' = getApprovers(prComments, prReviews, pr, approverOwners)
  /\ approved' = isApproved(prComments, prReviews, pr, codeowners, approverOwners,
                            changedFiles)
  /\ IF ~approved'.ok
       THEN /\ labelConfigs' = pushLabel(labelConfigs, needsLgtmLabel)
            /\ failed' = TRUE
            /\ pc' = "setLabels"
            /\ ret' = "notApproved"
       ELSE /\ labelConfigs' = pushLabel(labelConfigs, lgtmLabel)
            /\ pc' = "mergeCommand"
            /\ UNCHANGED <<failed, ret>>
  /\ UNCHANGED <<inputs, platform, owners, approverOwners, commentMessage,
                 mergeCommand, checkSuiteGreen, removing, fileIdx, exitCode, outcome>>

(* run: after the labels of a PR that is not approved *)
NotApproved ==
  /\ pc = "notApproved"
  /\ prComments' = sendCommentUpdate(prComments, commentMessage,
                     <<"PR is missing approvals for some files still.">>)
  /\ Exit(1, "not_approved")
  /\ UNCHANGED <<inputs, prReviews, pending, prLabels, repoLabels, prAssignees,
                 checkRuns, merged, mergeCalls, mergeMethod, openPullRequests, locals>>

(* run: hasMergeCommand; none sets needs-merge, one sets merge-ready *)
MergeCommand ==
  /\ pc = "mergeCommand"
  /\ mergeCommand' = hasMergeCommand(prComments, prReviews, pr, approverOwners)
  /\ IF ~mergeCommand'
       THEN /\ labelConfigs' = pushLabel(labelConfigs, needsMergeLabel)
            /\ prComments' = sendCommentUpdate(prComments, commentMessage,
                 <<"PR is approved. Missing merge command to auto-merge PR!">>)
            /\ ret' = "needsMerge"
       ELSE /\ labelConfigs' = pushLabel(labelConfigs, mergeReadyLabel)
            /\ ret' = "poll"
            /\ UNCHANGED prComments
  /\ pc' = "setLabels"
  /\ UNCHANGED <<inputs, prReviews, pending, prLabels, repoLabels, prAssignees,
                 checkRuns, merged, mergeCalls, mergeMethod, openPullRequests, owners, approverOwners,
                 commentMessage, approvers, approved, checkSuiteGreen, removing,
                 fileIdx, failed, exitCode, outcome>>

(* run: after the labels of an approved PR without a merge command *)
NeedsMerge ==
  /\ pc = "needsMerge"
  /\ Exit(1, "no_merge_command")
  /\ UNCHANGED <<inputs, platform, locals>>

(* setLabels: missing labels are created, the target labels are added *)
AddLabels ==
  /\ pc = "setLabels"
  /\ repoLabels' = repoLabels \cup Range(labelConfigs)
  /\ prLabels' = addLabels(prLabels, labelConfigs)
  /\ removing' = removingLabels(labelConfigs)
  /\ pc' = IF removing' = <<>> THEN ret ELSE "removeLabels"
  /\ UNCHANGED <<inputs, prComments, prReviews, pending, prAssignees, checkRuns,
                 merged, mergeCalls, mergeMethod, openPullRequests, owners, approverOwners, commentMessage,
                 labelConfigs, approvers, approved, mergeCommand, checkSuiteGreen, ret, fileIdx, failed,
                 exitCode, outcome>>

(* setLabels: one removeLabel call that succeeds *)
RemoveLabel ==
  /\ pc = "removeLabels"
  /\ Head(removing) \in prLabels
  /\ prLabels' = prLabels \ {Head(removing)}
  /\ removing' = Tail(removing)
  /\ pc' = IF removing' = <<>> THEN ret ELSE "removeLabels"
  /\ UNCHANGED <<inputs, prComments, prReviews, pending, repoLabels, prAssignees,
                 checkRuns, merged, mergeCalls, mergeMethod, openPullRequests, owners, approverOwners,
                 commentMessage, labelConfigs, approvers, approved, mergeCommand, checkSuiteGreen, ret, fileIdx,
                 failed, exitCode, outcome>>

(* setLabels: one removeLabel call that throws (the label is not attached, *)
(* or the platform refuses or fails the call); the error is logged         *)
RemoveLabelFails ==
  /\ pc = "removeLabels"
  /\ removing' = Tail(removing)
  /\ pc' = IF removing' = <<>> THEN ret ELSE "removeLabels"
  /\ UNCHANGED <<inputs, platform, owners, approverOwners, commentMessage,
                 labelConfigs, approvers, approved, mergeCommand, checkSuiteGreen, ret, fileIdx, failed,
                 exitCode, outcome>>

(* the platform: a check run starts or completes while the gate polls; the *)
(* entry of the bot's job does not change as long as the run lasts          *)
CheckProgress ==
  /\ pc \in {"poll", "sleep"}
  /\ \E n \in CheckNames \ {GITHUB_JOB} :
       \/ /\ checkRuns[n].status = "queued"
          /\ checkRuns' = [checkRuns EXCEPT ![n] = RunningRun]
       \/ /\ checkRuns[n].status = "in_progress"
          /\ \E c \in Outcomes(n) :
               checkRuns' = [checkRuns EXCEPT ![n] = CompletedRun(c)]
  /\ UNCHANGED <<inputs, prComments, prReviews, pending, prLabels, repoLabels,
                 prAssignees, merged, mergeCalls, mergeMethod, openPullRequests, locals, pc, exitCode, outcome>>

(* isCheckSuiteGreen: a poll that sees a failed check run *)
(* a gate that takes merge-ready back when a check run has failed *)
PollFailedRetractsLabel ==
  /\ pc = "poll"
  /\ failedRun(checkRuns)
  /\ prComments' = sendCommentUpdate(prComments, commentMessage,
                     <<"PR will be auto-merged once Test suite is green!">>)
  /\ prLabels' = prLabels \ {mergeReadyLabel}
  /\ checkSuiteGreen' = "false"
  /\ Exit(1, "checks_failed")
  /\ UNCHANGED <<inputs, prReviews, pending, repoLabels, prAssignees,
                 checkRuns, merged, mergeCalls, mergeMethod, openPullRequests, owners, approverOwners,
                 commentMessage, labelConfigs, approvers, approved, mergeCommand,
                 removing, ret, fileIdx, failed>>

PollFailed ==
  /\ pc = "poll"
  /\ failedRun(checkRuns)
  /\ prComments' = sendCommentUpdate(prComments, commentMessage,
                     <<"PR will be auto-merged once Test suite is green!">>)
  /\ checkSuiteGreen' = "false"
  /\ Exit(1, "checks_failed")
  /\ UNCHANGED <<inputs, prReviews, pending, prLabels, repoLabels, prAssignees,
                 checkRuns, merged, mergeCalls, mergeMethod, openPullRequests, owners, approverOwners,
                 commentMessage, labelConfigs, approvers, approved, mergeCommand,
                 removing, ret, fileIdx, failed>>

(* isCheckSuiteGreen: a poll that sees a check run in progress, then sleeps *)
PollWait ==
  /\ pc = "poll"
  /\ ~failedRun(checkRuns)
  /\ inprogressRun(checkRuns)
  /\ pc' = "sleep"
  /\ UNCHANGED <<inputs, platform, locals, exitCode, outcome>>

(* isCheckSuiteGreen: the sleep ends and the loop lists the check runs again *)
Sleep ==
  /\ pc = "sleep"
  /\ pc' = "poll"
  /\ UNCHANGED <<inputs, platform, locals, exitCode, outcome>>

(* isCheckSuiteGreen: a poll that sees neither: green *)
PollReady ==
  /\ pc = "poll"
  /\ ~failedRun(checkRuns)
  /\ ~inprogressRun(checkRuns)
  /\ checkSuiteGreen' = "true"
  /\ pc' = "merge"
  /\ UNCHANGED <<inputs, platform, owners, approverOwners, commentMessage,
                 labelConfigs, approvers, approved, mergeCommand, removing, ret,
                 fileIdx, failed, exitCode, outcome>>

(* the input merge_method of the action: not set, or set *)
MergeMethods == {"", "rebase"}
(* core.getInput("merge_method") || "squash" *)
merge_method(input) == IF input = "" THEN "squash" ELSE input

(* run: pulls.merge succeeds *)
Merge ==
  /\ pc = "merge"
  /\ mergeCalls' = mergeCalls + 1
  /\ \E input \in MergeMethods :
       mergeMethod' = [input |-> input, call |-> merge_method(input)]
  /\ merged' = TRUE
  /\ pc' = "completion"
  /\ UNCHANGED <<inputs, prComments, prReviews, pending, prLabels, repoLabels,
                 prAssignees, checkRuns, openPullRequests, locals, exitCode, outcome>>

(* a failed pulls.merge after which the run carries on to its comment *)
MergeFailsUnnoticed ==
  /\ pc = "merge"
  /\ mergeCalls' = mergeCalls + 1
  /\ \E input \in MergeMethods :
       mergeMethod' = [input |-> input, call |-> merge_method(input)]
  /\ pc' = "completion"
  /\ UNCHANGED <<inputs, prComments, prReviews, pending, prLabels, repoLabels,
                 prAssignees, checkRuns, merged, openPullRequests, locals, exitCode, outcome>>

(* run: pulls.merge throws *)
MergeFails ==
  /\ pc = "merge"
  /\ mergeCalls' = mergeCalls + 1
  /\ \E input \in MergeMethods :
       mergeMethod' = [input |-> input, call |-> merge_method(input)]
  /\ pc' = "catch"
  /\ UNCHANGED <<inputs, prComments, prReviews, pending, prLabels, repoLabels,
                 prAssignees, checkRuns, merged, openPullRequests, locals, exitCode, outcome>>

(* a set that keeps every item *)
DedupNothing(acc, arr) == acc \o arr

(* Array.from(new Set(arr)) *)
RECURSIVE Dedup(_, _)
Dedup(acc, arr) ==
  IF arr = <<>> THEN acc ELSE Dedup(AddUnique(acc, Head(arr)), Tail(arr))

(* formatArray: the items joined as a list *)
RECURSIVE formatArray(_)
formatArray(arr) ==
  IF arr = <<>> THEN <<>>
  ELSE IF Len(arr) = 1 THEN Head(arr)
  ELSE Head(arr) \o <<", ">> \o formatArray(Tail(arr))

(* run: the completion comment, then run returns *)
Completion ==
  /\ pc = "completion"
  /\ prComments' = Append(prComments,
       BotComment(<<"Merged with approvals from ">>
                    \o formatArray(Dedup(<<>>, approved.approvers))
                    \o <<" - thanks for the contribution! :tada:">>))
  /\ Exit(IF failed THEN 1 ELSE 0, "merged")
  /\ UNCHANGED <<inputs, prReviews, pending, prLabels, repoLabels, prAssignees,
                 checkRuns, merged, mergeCalls, mergeMethod, openPullRequests, locals>>

(* run: the completion comment throws *)
CompletionFails ==
  /\ pc = "completion"
  /\ pc' = "catch"
  /\ UNCHANGED <<inputs, platform, locals, exitCode, outcome>>

(* run, catch: a changed file under .github/workflows sets needs-manual-merge *)
CatchWorkflowFile ==
  /\ pc = "catch"
  /\ fileIdx <= Len(changedFiles)
  /\ Includes(changedFiles[fileIdx], <<".github/workflows">>)
  /\ labelConfigs' = pushLabel(labelConfigs, needsManualMergeLabel)
  /\ fileIdx' = fileIdx + 1
  /\ pc' = "setLabels"
  /\ ret' = "catch"
  /\ UNCHANGED <<inputs, platform, owners, approverOwners, commentMessage, approvers, approved,
                 mergeCommand, checkSuiteGreen, removing, failed, exitCode, outcome>>

(* the catch block labelling for a changed file outside the workflows *)
CatchOtherFileLabelled ==
  /\ pc = "catch"
  /\ fileIdx <= Len(changedFiles)
  /\ ~Includes(changedFiles[fileIdx], <<".github/workflows">>)
  /\ labelConfigs' = pushLabel(labelConfigs, needsManualMergeLabel)
  /\ fileIdx' = fileIdx + 1
  /\ pc' = "setLabels"
  /\ ret' = "catch"
  /\ UNCHANGED <<inputs, platform, owners, approverOwners, commentMessage, approvers, approved,
                 mergeCommand, checkSuiteGreen, removing, failed, exitCode, outcome>>

(* run, catch: any other changed file *)
CatchOtherFile ==
  /\ pc = "catch"
  /\ fileIdx <= Len(changedFiles)
  /\ ~Includes(changedFiles[fileIdx], <<".github/workflows">>)
  /\ fileIdx' = fileIdx + 1
  /\ UNCHANGED <<inputs, platform, owners, approverOwners, commentMessage,
                 labelConfigs, approvers, approved, mergeCommand, checkSuiteGreen, removing, ret, failed, pc,
                 exitCode, outcome>>

(* run, catch: the failure is logged and the run fails *)
CatchExit ==
  /\ pc = "catch"
  /\ fileIdx > Len(changedFiles)
  /\ failed' = TRUE
  /\ Exit(1, "merge_failed")
  /\ UNCHANGED <<inputs, platform, owners, approverOwners, commentMessage,
                 labelConfigs, approvers, approved, mergeCommand, checkSuiteGreen, removing, ret, fileIdx>>

(* ------------------------------------------------------------------ *)
(* The extractor and the evaluator applied to the inputs of InitEval    *)
(* ------------------------------------------------------------------ *)
ApplyGetCodeOwners ==
  /\ pc = "evalOwners"
  /\ owners' = getCodeOwners(changedFiles, codeowners)
  /\ approverOwners' = SelectSeq(owners', LAMBDA o : o # At(pr.user.login))
  /\ pc' = "evalApproved"
  /\ UNCHANGED <<inputs, platform, commentMessage, labelConfigs, approvers, approved,
                 mergeCommand, checkSuiteGreen, removing, ret, fileIdx, failed, exitCode, outcome>>

ApplyIsApproved ==
  /\ pc = "evalApproved"
  /\ approvers' = getApprovers(prComments, prReviews, pr, approverOwners)
  /\ approved' = isApproved(prComments, prReviews, pr, codeowners, approverOwners,
                            changedFiles)
  /\ pc' = "evalMergeCommand"
  /\ UNCHANGED <<inputs, platform, owners, approverOwners, commentMessage,
                 labelConfigs, mergeCommand, checkSuiteGreen, removing, ret, fileIdx, failed, exitCode,
                 outcome>>

ApplyHasMergeCommand ==
  /\ pc = "evalMergeCommand"
  /\ mergeCommand' = hasMergeCommand(prComments, prReviews, pr, approverOwners)
  /\ pc' = "evalDone"
  /\ UNCHANGED <<inputs, platform, owners, approverOwners, commentMessage,
                 labelConfigs, approvers, approved, checkSuiteGreen, removing, ret,
                 fileIdx, failed, exitCode, outcome>>

NextEval == ApplyGetCodeOwners \/ ApplyIsApproved \/ ApplyHasMergeCommand

SpecEval == InitEval /\ [][NextEval]_vars

Next ==
  \/ Setup
  \/ SetupNotPullRequest
  \/ Welcome
  \/ Acknowledge
  \/ NoBody
  \/ NoOwners
  \/ StatusComment
  \/ DeliverComment
  \/ Evaluate
  \/ NotApproved
  \/ MergeCommand
  \/ NeedsMerge
  \/ AddLabels
  \/ RemoveLabel
  \/ RemoveLabelFails
  \/ CheckProgress
  \/ PollFailed
  \/ PollWait
  \/ Sleep
  \/ PollReady
  \/ Merge
  \/ MergeFails
  \/ Completion
  \/ CompletionFails
  \/ CatchWorkflowFile
  \/ CatchOtherFile
  \/ CatchExit

Spec == Init /\ [][Next]_vars

(* ------------------------------------------------------------------ *)
(* Properties                                                          *)
(* ------------------------------------------------------------------ *)
Vocabulary ==
  {"needs-lgtm", "lgtm", "needs-merge", "merge-ready", "needs-manual-merge"}

(* the conditions of a valid signal, stated on the history itself *)
CarriesMarker(body) ==
  \E i \in 1..Len(body) : body[i] = "<!-- Message About Merging -->"
SaysLgtm(body) == \E i \in 1..Len(body) : body[i] \in {"/lgtm", "/LGTM"}
SaysMerge(body) == \E i \in 1..Len(body) : body[i] \in {"/merge", "/Merge"}
Eligible(login) ==
  /\ login # pr.user.login
  /\ approverOwners = <<>> \/ \E i \in 1..Len(approverOwners) :
                                approverOwners[i] = <<"@">> \o login
ApprovingComment(c) == ~CarriesMarker(c.body) /\ SaysLgtm(c.body) /\ Eligible(c.user.login)
ApprovingReview(r) ==
  /\ ~CarriesMarker(r.body)
  /\ SaysLgtm(r.body) \/ r.state = "APPROVED"
  /\ Eligible(r.user.login)
MergeRequesting(c) == ~CarriesMarker(c.body) /\ SaysMerge(c.body) /\ Eligible(c.user.login)
ValidApprover(login) ==
  \/ \E i \in 1..Len(prComments) :
       prComments[i].user.login = login /\ ApprovingComment(prComments[i])
  \/ \E i \in 1..Len(prReviews) :
       prReviews[i].user.login = login /\ ApprovingReview(prReviews[i])
SomeValidApproval ==
  \/ \E i \in 1..Len(prComments) : ApprovingComment(prComments[i])
  \/ \E i \in 1..Len(prReviews) : ApprovingReview(prReviews[i])
SomeValidMergeRequest ==
  \/ \E i \in 1..Len(prComments) : MergeRequesting(prComments[i])
  \/ \E i \in 1..Len(prReviews) : MergeRequesting(prReviews[i])

(* the '@' owners the manifest declares for a changed file *)
DeclaredOwners(file) ==
  LET entries == codeowners[IF file[1] = "/" THEN Tail(file) ELSE file]
  IN  {entries[i] : i \in {j \in 1..Len(entries) : entries[j][1] = "@"}}

Evaluated == pc \in {"evalMergeCommand", "evalDone"}

(* C1: a merge call is issued only in a run in which isApproved returned a   *)
(* non-empty approver list, hasMergeCommand found a merge command and        *)
(* isCheckSuiteGreen returned true; a run in which one of them fails ends    *)
(* without a merge call, and no run issues more than one.                    *)
C1_MergeOnlyWhenEligible ==
  /\ mergeCalls > 0 =>
       /\ approved.ok
       /\ Len(approved.approvers) > 0
       /\ mergeCommand
       /\ checkSuiteGreen = "true"
  /\ mergeCalls <= 1
  /\ (pc = "done" /\ outcome \in {"not_approved", "no_merge_command", "checks_failed"})
       => mergeCalls = 0 /\ ~merged

C1_Witness == pc = "done" /\ merged /\ mergeCalls = 1 /\ Len(approved.approvers) > 0

(* C2: isApproved returns false exactly when no valid approval exists or some *)
(* changed file has declared '@' owners none of whom is a valid approver or   *)
(* the PR author; otherwise, files without a declared owner included, it      *)
(* returns the approvers.                                                     *)
C2_Blocking ==
  \/ ~SomeValidApproval
  \/ \E i \in 1..Len(changedFiles) :
       /\ DeclaredOwners(changedFiles[i]) # {}
       /\ \A o \in DeclaredOwners(changedFiles[i]) :
            o # <<"@">> \o pr.user.login /\ ~ValidApprover(Tail(o))

C2_IsApprovedVerdict ==
  Evaluated =>
    /\ approved.ok <=> ~C2_Blocking
    /\ approved.ok => approved.approvers = approvers /\ approvers # <<>>

C2_Witness ==
  /\ pc = "evalDone"
  /\ approved.ok
  /\ DeclaredOwners(WORKFLOW) = {}
  /\ DeclaredOwners(README) # {}
  /\ <<"@">> \o pr.user.login \notin DeclaredOwners(README)

(* C3: the PR author's login never appears in the list getApprovers returns,  *)
(* and approverOwners never contains the author, also when the author is a    *)
(* declared owner of a changed file.                                          *)
C3_AuthorExcluded ==
  /\ \A i \in 1..Len(approvers) : approvers[i] # pr.user.login
  /\ \A i \in 1..Len(approverOwners) : approverOwners[i] # <<"@">> \o pr.user.login

C3_Witness ==
  /\ pc = "evalDone"
  /\ <<"@">> \o pr.user.login \in DeclaredOwners(README)
  /\ \E i \in 1..Len(prComments) :
       prComments[i].user.login = pr.user.login /\ SaysLgtm(prComments[i].body)
  /\ \E i \in 1..Len(prReviews) :
       prReviews[i].user.login = pr.user.login /\ prReviews[i].state = "APPROVED"
  /\ approvers # <<>>
  /\ approverOwners # <<>>

(* C4: a comment or review is a valid signal exactly when its body does not   *)
(* carry the marker, it matches the command in any letter case (or, for the   *)
(* approval of a review, the review is APPROVED), its author is in owners or  *)
(* owners is empty, and its author is not the PR author: getApprovers returns *)
(* the authors of exactly these comments and reviews, in order, and           *)
(* hasMergeCommand holds exactly when one of them asks for the merge.         *)
C4_ValidSignals ==
  Evaluated =>
    /\ approvers =
         [i \in 1..Len(SelectSeq(prComments, ApprovingComment)) |->
            SelectSeq(prComments, ApprovingComment)[i].user.login]
         \o
         [i \in 1..Len(SelectSeq(prReviews, ApprovingReview)) |->
            SelectSeq(prReviews, ApprovingReview)[i].user.login]
    /\ pc = "evalDone" => (mergeCommand <=> SomeValidMergeRequest)

C4_Witness ==
  /\ pc = "evalDone"
  /\ mergeCommand
  /\ Len(approvers) = 2
  /\ approverOwners # <<>>
  /\ \E i \in 1..Len(prComments) :
       /\ prComments[i].body = <<"/LGTM", " ", "/Merge">>
       /\ Eligible(prComments[i].user.login)
  /\ \E i \in 1..Len(prComments) : CarriesMarker(prComments[i].body)

(* a run that went past the owners check and was evaluated *)
EvaluatedRun ==
  /\ pc = "done"
  /\ outcome \in {"not_approved", "no_merge_command", "checks_failed", "merged",
                  "merge_failed"}

OpenMode == EvaluatedRun /\ approverOwners = <<>>

(* an approval, a merge request, by anyone but the PR author *)
ApprovalByOther ==
  \/ \E i \in 1..Len(prComments) :
       /\ prComments[i].user.login # pr.user.login
       /\ ~CarriesMarker(prComments[i].body)
       /\ SaysLgtm(prComments[i].body)
  \/ \E i \in 1..Len(prReviews) :
       /\ prReviews[i].user.login # pr.user.login
       /\ ~CarriesMarker(prReviews[i].body)
       /\ SaysLgtm(prReviews[i].body) \/ prReviews[i].state = "APPROVED"
MergeRequestByOther ==
  \/ \E i \in 1..Len(prComments) :
       /\ prComments[i].user.login # pr.user.login
       /\ ~CarriesMarker(prComments[i].body)
       /\ SaysMerge(prComments[i].body)
  \/ \E i \in 1..Len(prReviews) :
       /\ prReviews[i].user.login # pr.user.login
       /\ ~CarriesMarker(prReviews[i].body)
       /\ SaysMerge(prReviews[i].body)

(* C5, as claimed: when approverOwners is empty the approval and the merge   *)
(* command are both waived, so the run always goes on to the merge gate.     *)
C5_Original ==
  OpenMode => outcome \notin {"not_approved", "no_merge_command"}

(* C5, amended: when approverOwners is empty only the owner-membership        *)
(* condition is waived. The run ends not approved exactly when nobody but the *)
(* author has approved, ends for want of a merge command exactly when         *)
(* somebody has approved and nobody but the author has asked for the merge,   *)
(* and reaches the merge gate exactly when both signals exist.                *)
C5_OpenModeStillNeedsSignals ==
  OpenMode =>
    /\ outcome = "not_approved" <=> ~ApprovalByOther
    /\ outcome = "no_merge_command" <=> ApprovalByOther /\ ~MergeRequestByOther
    /\ checkSuiteGreen # "pending" <=> ApprovalByOther /\ MergeRequestByOther
    /\ mergeCalls > 0 => ApprovalByOther /\ MergeRequestByOther

C5_Witness ==
  /\ OpenMode
  /\ merged
  /\ <<"@">> \o pr.user.login \in DeclaredOwners(README)
  /\ \A i \in 1..Len(approved.approvers) :
       <<"@">> \o approved.approvers[i] \notin DeclaredOwners(README)

(* C6: when approverOwners is empty, a '/lgtm' (a '/merge') of any user but   *)
(* the PR author counts, whether the manifest names that user or not, and one *)
(* such approval makes isApproved return approved.                            *)
C6_OpenApproval ==
  (Evaluated /\ approverOwners = <<>>) =>
    /\ \A i \in 1..Len(prComments) :
         ( /\ prComments[i].user.login \in {<<"alice">>, <<"bob">>, <<"carol">>}
           /\ prComments[i].user.login # pr.user.login
           /\ SaysLgtm(prComments[i].body) )
         => /\ approved.ok
            /\ \E j \in 1..Len(approved.approvers) :
                 approved.approvers[j] = prComments[i].user.login
    /\ \A i \in 1..Len(prComments) :
         ( /\ pc = "evalDone"
           /\ prComments[i].user.login \in {<<"alice">>, <<"bob">>, <<"carol">>}
           /\ prComments[i].user.login # pr.user.login
           /\ SaysMerge(prComments[i].body) )
         => mergeCommand

C6_Witness ==
  /\ pc = "evalDone"
  /\ approverOwners = <<>>
  /\ owners = <<<<"@">> \o pr.user.login>>
  /\ approved.approvers = <<<<"carol">>>>
  /\ Len(prComments) = 1
  /\ prReviews = <<>>
  /\ mergeCommand

(* the target labels of an evaluation state *)
TargetLabels ==
  IF ~approved.ok THEN {"needs-lgtm"}
  ELSE IF ~mergeCommand THEN {"lgtm", "needs-merge"}
  ELSE {"lgtm", "merge-ready"}

(* C7: the labels a run reconciles are a function of its evaluation: not     *)
(* approved gives needs-lgtm alone, approved without a merge command gives    *)
(* lgtm and needs-merge, approved with a merge command gives lgtm and         *)
(* merge-ready; in the first two cases the run issues no merge call and exits *)
(* non-zero.                                                                  *)
C7_TargetLabels ==
  /\ (pc \in {"setLabels", "removeLabels"} /\ ret # "catch")
       => Range(labelConfigs) = TargetLabels
  /\ pc \in {"notApproved", "needsMerge", "poll", "sleep", "merge", "completion"}
       => Range(labelConfigs) = TargetLabels
  /\ (EvaluatedRun /\ outcome \notin {"merge_failed"})
       => Range(labelConfigs) = TargetLabels
  /\ (EvaluatedRun /\ (~approved.ok \/ ~mergeCommand))
       => /\ mergeCalls = 0
          /\ exitCode = 1
          /\ outcome = IF ~approved.ok THEN "not_approved" ELSE "no_merge_command"

C7_Witness ==
  /\ pc = "done"
  /\ outcome = "no_merge_command"
  /\ approved.ok
  /\ Range(labelConfigs) = {"lgtm", "needs-merge"}
  /\ prLabels \cap Vocabulary = {"lgtm", "needs-merge"}

(* the status combinations active on the PR *)
ActiveCombinations ==
  { c \in { {"needs-lgtm"}, {"lgtm", "needs-merge"}, {"lgtm", "merge-ready"} } :
      c \subseteq prLabels }

(* C8: after a completed run at most one of the combinations needs-lgtm,     *)
(* lgtm with needs-merge, lgtm with merge-ready is active; needs-lgtm and    *)
(* merge-ready are never both attached.                                      *)
C8_LabelExclusivity ==
  pc = "done" =>
    /\ Cardinality(ActiveCombinations) <= 1
    /\ ~({"needs-lgtm", "merge-ready"} \subseteq prLabels)

(* C9, as claimed: at the end of a successful run exactly one label of the   *)
(* vocabulary is attached; stated for the run that merged the PR, which      *)
(* exits 0 after a reconciliation.                                           *)
C9_Original ==
  (pc = "done" /\ outcome = "merged" /\ exitCode = 0)
    => Cardinality(prLabels \cap Vocabulary) = 1

(* C9, amended: a run that merged the PR exits 0, its reconciled target is   *)
(* the two labels lgtm and merge-ready and both are attached, and any other  *)
(* label still attached was attached before the run. Every other run that    *)
(* exits 0 ended before the evaluation, reconciled nothing and left the      *)
(* labels of the PR as they were.                                            *)
C9_MergedLabels ==
  /\ (pc = "done" /\ outcome = "merged") =>
        /\ exitCode = 0
        /\ Range(labelConfigs) = {"lgtm", "merge-ready"}
        /\ {"lgtm", "merge-ready"} \subseteq prLabels
        /\ prLabels \ {"lgtm", "merge-ready"} \subseteq priorLabels
  /\ (pc = "done" /\ exitCode = 0 /\ outcome # "merged") =>
        /\ outcome \in {"not_a_pull_request", "no_body", "no_owners"}
        /\ labelConfigs = <<>>
        /\ prLabels = priorLabels

C9_Witness ==
  /\ pc = "done"
  /\ outcome = "merged"
  /\ prLabels \cap Vocabulary = {"lgtm", "merge-ready"}
  /\ priorLabels \cap Vocabulary = {"needs-lgtm"}

(* C10: after setLabels has finished, the labels of the vocabulary attached  *)
(* to the PR are exactly the target, whatever was attached before and         *)
(* whatever the remove calls answered.                                        *)
C10_ExactTarget ==
  ( \/ pc \in {"notApproved", "needsMerge", "poll", "sleep", "merge", "completion",
               "catch"}
    \/ EvaluatedRun )
    => prLabels \cap Vocabulary = Range(labelConfigs)

(* ------------------------------------------------------------------ *)
(* The merge gate                                                      *)
(* ------------------------------------------------------------------ *)
(* the check runs of the PR head that are not the bot's own job *)
OtherChecks == {"build", "lint"}
OtherFailed ==
  \E n \in OtherChecks :
    checkRuns[n].status = "completed" /\ checkRuns[n].conclusion = "failure"
OtherInProgress == \E n \in OtherChecks : checkRuns[n].status = "in_progress"

(* C11: a poll that observes a failed check run other than the bot's own     *)
(* answers false in that poll, also while another check run is in progress, *)
(* and the run then exits 1 without a merge call.                           *)
C11_FailedCheckBlocks ==
  [][ /\ (pc = "poll" /\ pc' # "poll" /\ OtherFailed)
          => /\ checkSuiteGreen' = "false"
             /\ pc' = "done"
             /\ outcome' = "checks_failed"
             /\ exitCode' = 1
             /\ mergeCalls' = 0
      /\ checkSuiteGreen = "false" => mergeCalls' = 0 /\ pc' = "done" ]_vars

C11_Witness ==
  /\ pc = "done"
  /\ outcome = "checks_failed"
  /\ checkRuns["build"] = [status |-> "completed", conclusion |-> "failure"]
  /\ checkRuns["lint"].status = "in_progress"
  /\ mergeCalls = 0

(* C12: a merge call is issued only when every check run other than the     *)
(* bot's own is green: when the gate has answered true none of them is      *)
(* queued, in progress, or completed with a conclusion other than success   *)
(* or neutral.                                                              *)
C12_AllChecksGreen ==
  (checkSuiteGreen = "true" \/ mergeCalls > 0) =>
    \A n \in OtherChecks :
      /\ checkRuns[n].status = "completed"
      /\ checkRuns[n].conclusion \in {"success", "neutral"}

(* C13: the check run named as the bot's own job never influences the gate: *)
(* the gate sleeps only when another check run is in progress, answers      *)
(* false only when another check run has failed, and can answer true as     *)
(* soon as no other check run is in progress or failed, whatever the status *)
(* of the bot's own.                                                        *)
C13_OwnJobIgnored ==
  [][ /\ (pc = "poll" /\ pc' = "sleep") => OtherInProgress
      /\ (pc = "poll" /\ checkSuiteGreen' = "false") => OtherFailed
      /\ (pc = "poll" /\ ~OtherInProgress /\ ~OtherFailed) => ENABLED PollReady
    ]_vars

C13_Witness ==
  /\ pc = "done"
  /\ merged
  /\ checkSuiteGreen = "true"
  /\ checkRuns[GITHUB_JOB] = [status |-> "completed", conclusion |-> "failure"]

(* The run with its scheduling: the process keeps running, so a poll or a   *)
(* sleep that can end does end; and the hypothesis of the termination       *)
(* claim, that a check run in progress is eventually completed. A queued    *)
(* check run need never start.                                              *)
GateStep == PollFailed \/ PollWait \/ Sleep \/ PollReady
CheckCompletes ==
  /\ CheckProgress
  /\ \E n \in OtherChecks :
       checkRuns[n].status = "in_progress" /\ checkRuns'[n].status = "completed"
SpecLive == Spec /\ WF_vars(GateStep) /\ WF_vars(CheckCompletes)

(* C14: the poll loop ends exactly in a poll that observes a failed check    *)
(* run (false) or no check run in progress (true); while a check run is in   *)
(* progress and none has failed every poll goes to sleep, whatever the       *)
(* number of polls before it; and when every check run in progress is        *)
(* eventually completed the loop eventually ends.                            *)
C14_PollLoop ==
  /\ [][
        /\ (pc \in {"poll", "sleep"} /\ pc' \notin {"poll", "sleep"})
             => ( /\ pc = "poll"
                  /\ \/ OtherFailed /\ checkSuiteGreen' = "false"
                     \/ ~OtherFailed /\ ~OtherInProgress /\ checkSuiteGreen' = "true" )
        /\ (pc = "poll" /\ pc' # "poll" /\ ~OtherFailed /\ OtherInProgress)
             => pc' = "sleep"
        /\ (pc = "sleep" /\ pc' # "sleep") => pc' = "poll"
      ]_vars
  /\ (pc = "poll") ~> (pc \notin {"poll", "sleep"})

C14_Witness ==
  /\ pc = "sleep"
  /\ checkRuns["build"].status = "in_progress"
  /\ checkRuns["lint"].status = "completed"
  /\ ~OtherFailed

(* ------------------------------------------------------------------ *)
(* The merge and its failure                                           *)
(* ------------------------------------------------------------------ *)
(* the completion comments on the PR *)
CompletionComments ==
  {i \in 1..Len(prComments) : prComments[i].body[1] = "Merged with approvals from "}

(* C15: the reconciliation that attaches lgtm and merge-ready is finished   *)
(* before the first poll of the check runs, and the completion comment is   *)
(* posted only after a merge call that succeeded: never when the merge call *)
(* failed or was not made.                                                  *)
C15_Ordering ==
  /\ (pc \in {"poll", "sleep", "merge", "completion"} \/ checkSuiteGreen # "pending")
       => /\ {"lgtm", "merge-ready"} \subseteq Range(labelConfigs)
          /\ {"lgtm", "merge-ready"} \subseteq prLabels
  /\ pc \in {"poll", "sleep", "merge", "completion"}
       => removing = <<>> /\ labelConfigs = <<"lgtm", "merge-ready">>
  /\ CompletionComments # {} => merged /\ mergeCalls = 1 /\ pc = "done"
  /\ pc = "completion" => merged

C15_Witness ==
  /\ pc = "done"
  /\ outcome = "merged"
  /\ CompletionComments = {Len(prComments)}
  /\ {"lgtm", "merge-ready"} \subseteq prLabels

(* how often the completion comment names a login *)
Credits(login) ==
  IF CompletionComments = {} THEN 0
  ELSE LET body == prComments[CHOOSE i \in CompletionComments : TRUE].body
       IN  Cardinality({j \in 1..Len(body) : <<body[j]>> = login})

(* C16: once the gate has answered true the run issues exactly one merge    *)
(* call, with the merge_method input, or squash when the input is not set;  *)
(* after a merge that succeeded it posts one completion comment, which      *)
(* names every valid approver once and nobody else.                         *)
C16_MergeAndCredit ==
  /\ (checkSuiteGreen = "true" /\ pc # "merge") => mergeCalls = 1
  /\ mergeCalls > 0 =>
       mergeMethod.call =
         IF mergeMethod.input = "" THEN "squash" ELSE mergeMethod.input
  /\ Cardinality(CompletionComments) <= 1
  /\ outcome = "merged" =>
       /\ Cardinality(CompletionComments) = 1
       /\ \A u \in {<<"alice">>, <<"bob">>, <<"carol">>} :
            Credits(u) = IF ValidApprover(u) THEN 1 ELSE 0

C16_Witness ==
  /\ outcome = "merged"
  /\ mergeMethod = [input |-> "", call |-> "squash"]
  /\ Len(approved.approvers) = 2
  /\ Credits(<<"alice">>) = 1
  /\ Credits(<<"carol">>) = 0

(* a changed path under the workflow configuration *)
TouchesWorkflows ==
  \E i \in 1..Len(changedFiles) :
    \E j \in 1..Len(changedFiles[i]) : changedFiles[i][j] = ".github/workflows"
(* the run ended after a merge call that failed *)
MergeCallFailed == pc = "done" /\ outcome = "merge_failed" /\ mergeCalls = 1 /\ ~merged

(* C17: when the merge call fails and a changed path is under the workflow  *)
(* configuration, the run attaches needs-manual-merge and does not end as a *)
(* failure: its exit code is 0.                                             *)
C17_WorkflowFailureNotFatal ==
  (MergeCallFailed /\ TouchesWorkflows) =>
    /\ "needs-manual-merge" \in prLabels
    /\ exitCode = 0
    /\ ~failed

(* C18: after a failed merge call on a PR with a changed path under the     *)
(* workflow configuration the labels of the vocabulary on the PR are        *)
(* exactly lgtm, merge-ready and needs-manual-merge; and a run whose merge  *)
(* call succeeded or was not made, or whose changed paths are all outside   *)
(* the workflow configuration, never attaches needs-manual-merge.           *)
C18_ManualMergeAdditive ==
  /\ (MergeCallFailed /\ TouchesWorkflows)
       => prLabels \cap Vocabulary = {"lgtm", "merge-ready", "needs-manual-merge"}
  /\ (merged \/ mergeCalls = 0 \/ ~TouchesWorkflows)
       => ("needs-manual-merge" \in prLabels => "needs-manual-merge" \in priorLabels)

(* C19: when the merge call fails and no changed file touches the workflow *)
(* configuration, the run ends failed with a non-zero status, the merge     *)
(* call is made once only, no completion comment is posted, and from the     *)
(* merge attempt to the end of the run the labels stay as they were, lgtm    *)
(* and merge-ready, the labels the run set, among them.                      *)
PlainMergeFailure ==
  pc = "done" /\ outcome = "merge_failed" /\ ~merged /\ ~TouchesWorkflows

C19_PlainFailureIsFatal ==
  /\ [](PlainMergeFailure =>
          /\ exitCode # 0
          /\ failed
          /\ mergeCalls = 1
          /\ CompletionComments = {}
          /\ labelConfigs = <<"lgtm", "merge-ready">>
          /\ {"lgtm", "merge-ready"} \subseteq prLabels)
  /\ [][
        ((pc = "merge" \/ pc = "catch") /\ pc' \in {"catch", "done"}
           /\ ~merged' /\ ~TouchesWorkflows)
          => (prLabels' = prLabels /\ labelConfigs' = labelConfigs /\ pc' # "merge")
      ]_vars

C19_Witness == PlainMergeFailure /\ exitCode = 1 /\ mergeCalls = 1

(* C20: a run terminates with status zero only if the merge succeeded or   *)
(* the short-circuit for no declared owners was taken; every other ending   *)
(* of a run is non-zero.                                                    *)
C20_ZeroOnlyOnMergeOrNoOwners ==
  (pc = "done" /\ exitCode = 0) =>
    \/ (outcome = "merged" /\ merged)
    \/ outcome = "no_owners"

(* ------------------------------------------------------------------ *)
(* The short-circuit, the coverage gap and the managed comment          *)
(* ------------------------------------------------------------------ *)
NoDeclaredOwner == getCodeOwners(changedFiles, codeowners) = <<>>
PastSetup == pc = "done" /\ outcome \notin {"not_a_pull_request", "no_body"}
NoOwnersComments ==
  {i \in 1..Len(prComments) :
     /\ Includes(prComments[i].body, noOwnersMessage)
     /\ Includes(prComments[i].body, ourSignature)}
NothingEvaluated ==
  /\ approvers = <<>>
  /\ approved = [ok |-> FALSE, approvers |-> <<>>]
  /\ mergeCommand = FALSE
  /\ checkSuiteGreen = "pending"
  /\ mergeCalls = 0
  /\ ~merged

(* C21: when no changed file has a declared owner the run takes the        *)
(* short-circuit: isApproved, hasMergeCommand, isCheckSuiteGreen and the    *)
(* merge are never called, no label of the PR changes, and the run ends     *)
(* once the managed comment saying that there are no owners is written.     *)
C21_NoOwnersShortCircuit ==
  /\ (NoDeclaredOwner /\ PastSetup) => outcome = "no_owners"
  /\ NoDeclaredOwner => (NothingEvaluated /\ labelConfigs = <<>> /\ prLabels = priorLabels)
  /\ (pc = "done" /\ outcome = "no_owners") => NoOwnersComments # {}

(* a changed path the manifest has no entry for *)
CoverageGap ==
  \E i \in 1..Len(changedFiles) : getOwner(codeowners, Relative(changedFiles[i])) = <<>>
OnlyPathHasNoEntry ==
  Len(changedFiles) = 1 /\ getOwner(codeowners, Relative(changedFiles[1])) = <<>>
(* nobody has written /lgtm or submitted an approving review *)
NoApprovalPosted ==
  /\ \A i \in 1..Len(prComments) :
        CarriesMarker(prComments[i].body) \/ ~SaysLgtm(prComments[i].body)
  /\ \A i \in 1..Len(prReviews) :
        prReviews[i].state # "APPROVED" /\ ~SaysLgtm(prReviews[i].body)

(* C22, as stated: a PR whose only changed path has no manifest entry and   *)
(* on which no approval is posted gets the verdict not approved and the     *)
(* label needs-lgtm.                                                        *)
C22_Original ==
  (OnlyPathHasNoEntry /\ NoApprovalPosted /\ PastSetup)
    => (outcome = "not_approved" /\ "needs-lgtm" \in prLabels)

(* C22: a PR with a changed path that has no manifest entry, with a         *)
(* declared owner for some other changed path and with no approval posted,  *)
(* gets the verdict not approved and the label needs-lgtm: the gap waives   *)
(* the ownership of that path, never the need for an approval. When no      *)
(* changed path has a declared owner the run ends in the short-circuit      *)
(* instead, with no verdict and no label set.                               *)
C22_GapStillNeedsApproval ==
  /\ (CoverageGap /\ ~NoDeclaredOwner /\ NoApprovalPosted /\ PastSetup)
       => /\ outcome = "not_approved"
          /\ ~approved.ok
          /\ labelConfigs = <<"needs-lgtm">>
          /\ "needs-lgtm" \in prLabels
          /\ mergeCalls = 0
  /\ (OnlyPathHasNoEntry /\ PastSetup)
       => (outcome = "no_owners" /\ labelConfigs = <<>> /\ prLabels = priorLabels)

C22_Witness ==
  /\ CoverageGap /\ ~NoDeclaredOwner /\ NoApprovalPosted
  /\ approverOwners = <<>>
  /\ pc = "done" /\ outcome = "not_approved" /\ "needs-lgtm" \in prLabels \ priorLabels

(* the comments of the PR that carry the marker of the managed comment *)
ManagedComments(cs) == {i \in 1..Len(cs) : Includes(cs[i].body, ourSignature)}
DuplicateManaged(cs) ==
  \E i, j \in ManagedComments(cs) : i # j /\ cs[i].body = cs[j].body
StatusStepDone ==
  pc \notin {"setup", "event", "owners"} /\ outcome \notin {"not_a_pull_request", "no_body"}

(* C23: welcomeMessage called again on the same PR leaves one comment      *)
(* carrying the marker: once the status step is over and no request is in   *)
(* flight there is a managed comment, and no step of a run gives a PR that  *)
(* has at most one managed comment a second one with the same text.         *)
C23_OneManagedComment ==
  /\ []((StatusStepDone /\ pending = <<>>) => ManagedComments(prComments) # {})
  /\ [][
        Cardinality(ManagedComments(prComments)) <= 1
          => ~DuplicateManaged(prComments')
      ]_vars

(* ------------------------------------------------------------------ *)
(* The evaluator as a function of the history                           *)
(* ------------------------------------------------------------------ *)
(* the approvals that are valid on this PR and could be added to the history *)
ValidApprovalComments ==
  {c \in AllCommentChoices :
     isCommentValid(c.body, c.user.login, lgtmRegex, approverOwners, pr, FALSE)}
ValidApprovalReviews ==
  {r \in AllReviewChoices :
     isCommentValid(r.body, r.user.login, lgtmRegex, approverOwners, pr,
                    r.state = "APPROVED")}
Unapproved(cs, rs) ==
  Range(unapprovedFiles(cs, rs, pr, codeowners, approverOwners, changedFiles))
ApprovedWith(cs, rs) ==
  isApproved(cs, rs, pr, codeowners, approverOwners, changedFiles).ok

(* C24: one more valid approval added to the history never enlarges the    *)
(* set of unapproved files of isApproved, and an approved PR stays approved. *)
C24_ApprovalMonotone ==
  Evaluated =>
    /\ \A c \in ValidApprovalComments :
         /\ Unapproved(Append(prComments, c), prReviews)
              \subseteq Unapproved(prComments, prReviews)
         /\ approved.ok => ApprovedWith(Append(prComments, c), prReviews)
    /\ \A r \in ValidApprovalReviews :
         /\ Unapproved(prComments, Append(prReviews, r))
              \subseteq Unapproved(prComments, prReviews)
         /\ approved.ok => ApprovedWith(prComments, Append(prReviews, r))

C24_Witness ==
  /\ pc = "evalDone"
  /\ approvers # <<>>
  /\ ~approved.ok
  /\ \E c \in ValidApprovalComments :
       /\ Unapproved(Append(prComments, c), prReviews) # Unapproved(prComments, prReviews)
       /\ ApprovedWith(Append(prComments, c), prReviews)

(* the principals with a valid approval in a history *)
ApproverSet(cs, rs) == Range(getApprovers(cs, rs, pr, approverOwners))
Reverse(seq) == [i \in 1..Len(seq) |-> seq[Len(seq) + 1 - i]]
(* the history of the PR in another order, and with one more valid approval *)
(* by a principal who has approved already                                  *)
SameApprovers ==
  {<<Reverse(prComments), prReviews>>, <<prComments, Reverse(prReviews)>>,
   <<Reverse(prComments), Reverse(prReviews)>>}
    \cup {<<Append(prComments, c), prReviews>> :
            c \in {x \in ValidApprovalComments :
                     x.user.login \in ApproverSet(prComments, prReviews)}}
    \cup {<<prComments, Append(prReviews, r)>> :
            r \in {x \in ValidApprovalReviews :
                     x.user.login \in ApproverSet(prComments, prReviews)}}

(* C25: the verdict of isApproved and its unapproved files depend on the    *)
(* set of valid approvers alone: the history with an approval repeated by   *)
(* its principal, or with the signals in another order, gives the same.     *)
C25_ApproverSetDecides ==
  Evaluated =>
    \A h \in SameApprovers :
      /\ ApprovedWith(h[1], h[2]) = approved.ok
      /\ Unapproved(h[1], h[2]) = Unapproved(prComments, prReviews)

C25_Witness ==
  /\ pc = "evalDone"
  /\ approved.ok
  /\ Len(prComments) = 2 /\ prComments[1] # prComments[2]
  /\ Len(approvers) = 2 /\ approvers[1] = approvers[2]
  /\ \E h \in SameApprovers :
       Len(getApprovers(h[1], h[2], pr, approverOwners)) = 3

(* C26, as stated: an APPROVED review by an eligible author is counted as *)
(* an approval whatever its body says.                                     *)
C26_Original ==
  Evaluated =>
    \A i \in 1..Len(prReviews) :
      (prReviews[i].state = "APPROVED" /\ Eligible(prReviews[i].user.login))
        => prReviews[i].user.login \in Range(approvers)

(* C26: an APPROVED review by an eligible author, with a body that does not *)
(* carry the marker of the managed comment, is counted as an approval       *)
(* whatever else its body says; with the marker in its body it is not       *)
(* counted. The APPROVED state is never a merge request: hasMergeCommand    *)
(* answers true only when an eligible author wrote /merge.                  *)
C26_ApprovedReviewCounts ==
  /\ Evaluated =>
       \A i \in 1..Len(prReviews) :
         LET r == prReviews[i]
         IN  /\ (r.state = "APPROVED" /\ Eligible(r.user.login) /\ ~CarriesMarker(r.body))
                  => r.user.login \in Range(approvers)
             /\ (CarriesMarker(r.body) /\ ~ValidApprover(r.user.login))
                  => r.user.login \notin Range(approvers)
  /\ pc = "evalDone" =>
       (mergeCommand = TRUE =>
          \/ \E i \in 1..Len(prComments) : MergeRequesting(prComments[i])
          \/ \E i \in 1..Len(prReviews) : MergeRequesting(prReviews[i]))

C26_Witness ==
  /\ pc = "evalDone"
  /\ Len(prReviews) = 1 /\ prComments = <<>>
  /\ prReviews[1].state = "APPROVED" /\ prReviews[1].body = <<>>
  /\ approverOwners # <<>>
  /\ approvers = <<prReviews[1].user.login>>
  /\ approved.ok
  /\ mergeCommand = FALSE

(* ------------------------------------------------------------------ *)
(* The payload without a body                                           *)
(* ------------------------------------------------------------------ *)
NoBodyEvent == eventName # "pull_request_target" /\ ~PayloadHasBody

(* C27: when the event is not pull_request_target and its payload has no   *)
(* comment body and no review body the run fails at once with an error:     *)
(* it ends failed with a non-zero status, posts no comment, changes no      *)
(* label, evaluates nothing and makes no merge call.                        *)
C27_NoBodyFails ==
  /\ [](((NoBodyEvent /\ PastSetup) \/ outcome = "no_body")
          => /\ outcome = "no_body"
             /\ exitCode # 0
             /\ failed
             /\ NothingEvaluated
             /\ labelConfigs = <<>>
             /\ prLabels = priorLabels
             /\ pending = <<>>)
  /\ [][NoBodyEvent => prComments' = prComments]_vars

(* ------------------------------------------------------------------ *)
(* The reviewer assignment                                              *)
(* ------------------------------------------------------------------ *)
(* the owners left after the PR author is removed *)
EligibleReviewers == Range(SelectSeq(owners, LAMBDA o : o # At(pr.user.login)))
(* the open pull requests assigned to a login *)
Load(login) ==
  IF login \in DOMAIN openPullRequests THEN openPullRequests[login] ELSE 0
(* the welcome message of a run that found nobody to assign *)
NoReviewerFound ==
  \/ \E i \in 1..Len(prComments) :
       Includes(prComments[i].body, <<" No automatic reviewer could be found.">>)
  \/ \E i \in 1..Len(pending) :
       Includes(pending[i].body, <<" No automatic reviewer could be found.">>)

(* C28: the reviewer assignReviewer assigns is an owner of the changed      *)
(* files, is not the PR author, and has the fewest open pull requests       *)
(* assigned among the eligible owners; with no eligible owner nobody is     *)
(* assigned.                                                                *)
C28_LeastLoadedReviewer ==
  /\ \A a \in prAssignees :
       /\ At(a) \in EligibleReviewers
       /\ At(a) \in Range(getCodeOwners(changedFiles, codeowners))
       /\ a # pr.user.login
       /\ \A o \in EligibleReviewers : Load(a) <= Load(Tail(o))
  /\ EligibleReviewers = {} => prAssignees = {}
  /\ NoReviewerFound => (EligibleReviewers = {} /\ prAssignees = {})

(* ------------------------------------------------------------------ *)
(* src/index.js: the checks of canBeMerged                              *)
(* ------------------------------------------------------------------ *)
(* labels.add(o.slice(1, o.length - 1)) for the entries that start with "[" *)
RECURSIVE AddBracketLabels(_, _)
AddBracketLabels(ls, fileOwners) ==
  IF fileOwners = <<>> THEN ls
  ELSE AddBracketLabels(
         IF StartsWith(Head(fileOwners), "[")
           THEN AddUnique(ls, SubSeq(Head(fileOwners), 2, Len(Head(fileOwners)) - 1))
           ELSE ls,
         Tail(fileOwners))

RECURSIVE LabelsFrom(_, _, _)
LabelsFrom(ls, files, co) ==
  IF files = <<>> THEN ls
  ELSE LabelsFrom(AddBracketLabels(ls, getOwner(co, Relative(Head(files)))),
                  Tail(files), co)

getCodeOwnersAndLabels(files, co) ==
  [users |-> CodeOwnersFrom(<<>>, files, co), labels |-> LabelsFrom(<<>>, files, co)]

(* process.env.GITHUB_ACTION: the name the platform gives the running step *)
GITHUB_ACTIONS == {<<"__casassg_auto-merge-bot">>, <<"run", "1">>}

(* parseInt: the number a string starts with, NaN when it starts with none *)
NaN == [kind |-> "nan", val |-> 0]
DigitChunks == {"0", "1", "2", "3"}
DigitValue(c) == CASE c = "0" -> 0 [] c = "1" -> 1 [] c = "2" -> 2 [] OTHER -> 3
parseInt(str) ==
  IF str # <<>> /\ str[1] \in DigitChunks THEN Num(DigitValue(str[1])) ELSE NaN

(* id !== n for a number id; nothing is equal to NaN *)
NotStrictEqual(id, n) == ~(n.kind = "num" /\ n.val = id)

(* the check suites of the PR head: the suite of the bot's own workflow run, *)
(* in progress while the bot runs, and the suite of another application      *)
OwnSuite == 1
OtherSuite == 2
SuiteStates ==
  {QueuedRun, RunningRun, CompletedRun("success"), CompletedRun("failure")}
CheckSuites ==
  {s \in [{OwnSuite, OtherSuite} -> SuiteStates] : s[OwnSuite] = RunningRun}

index_isCheckSuiteGreen(suites, action) ==
  ~\E id \in DOMAIN suites :
     /\ \/ suites[id].status = "in_progress"
        \/ suites[id].status = "completed" /\ suites[id].conclusion = "failure"
     /\ ~NotStrictEqual(id, parseInt(action))

(* key in arr: the keys of an array are its indices and "length" *)
InArray(key, arr) ==
  key \in {<<"length">>} \cup {<<ToString(i)>> : i \in 0..(Len(arr) - 1)}

index_getApprovers(cs, rs, p) ==
  Logins(SelectSeq(cs, LAMBDA comment :
           /\ Match(comment.body, lgtmRegex)
           /\ comment.user.login # p.user.login
           /\ ~Includes(comment.body, ourSignature)))
  \o
  Logins(rs)

index_hasMergeCommand(cs, rs, p, os) ==
  \/ \E i \in 1..Len(cs) :
       /\ Match(cs[i].body, mergeRegex)
       /\ cs[i].user.login # p.user.login
       /\ ArrIncludes(os, cs[i].user.login)
  \/ \E i \in 1..Len(rs) :
       /\ Match(rs[i].body, mergeRegex)
       /\ rs[i].user.login # p.user.login
       /\ InArray(rs[i].user.login, os)

(* canBeMerged: ok = FALSE is the value false, ok = TRUE the approvers array *)
canBeMerged(suites, action, cs, rs, p, co, os, files) ==
  LET approverList == index_getApprovers(cs, rs, p)
      notApproved == NotApprovedBy(approverList, files, co)
  IN  IF ~index_isCheckSuiteGreen(suites, action)
        THEN [ok |-> FALSE, approvers |-> <<>>]
      ELSE IF ~index_hasMergeCommand(cs, rs, p, os)
        THEN [ok |-> FALSE, approvers |-> <<>>]
      ELSE IF Len(approverList) < 1
        THEN [ok |-> FALSE, approvers |-> <<>>]
      ELSE IF Len(notApproved) > 0
        THEN [ok |-> FALSE, approvers |-> <<>>]
      ELSE [ok |-> TRUE, approvers |-> approverList]

(* the histories the checks of index.js are applied to *)
IndexCommentChoices ==
  {Comment(alice, <<"/merge">>), Comment(carol, <<"/lgtm">>)}
IndexReviewChoices ==
  {Review(alice, <<"/merge">>, "COMMENTED"), Review(carol, <<>>, "APPROVED"),
   Review(bob, <<"nit">>, "COMMENTED")}

InitIndex ==
  /\ pc = "indexOwners"
  /\ pr \in {[user |-> [login |-> a]] : a \in Authors}
  /\ changedFiles = <<README, WORKFLOW>>
  /\ codeowners \in Manifests(changedFiles)
  /\ prComments \in SeqsUpTo(IndexCommentChoices, MaxComments)
  /\ prReviews \in SeqsUpTo(IndexReviewChoices, MaxReviews)
  /\ eventName = "issue_comment"
  /\ payload = [issue |-> TRUE]
  /\ prLabels = {}
  /\ checkRuns \in CheckSuites
  /\ NotStarted

(* run: getCodeOwnersAndLabels *)
ApplyGetCodeOwnersAndLabels ==
  /\ pc = "indexOwners"
  /\ owners' = getCodeOwnersAndLabels(changedFiles, codeowners).users
  /\ pc' = "indexChecks"
  /\ UNCHANGED <<inputs, platform, approverOwners, commentMessage, labelConfigs, approvers,
                 approved, mergeCommand, checkSuiteGreen, removing, ret, fileIdx, failed,
                 exitCode, outcome>>

(* canBeMerged: isCheckSuiteGreen *)
ApplyIndexCheckSuiteGreen ==
  /\ pc = "indexChecks"
  /\ \E action \in GITHUB_ACTIONS :
       checkSuiteGreen' =
         IF index_isCheckSuiteGreen(checkRuns, action) THEN "true" ELSE "false"
  /\ pc' = "indexMergeCommand"
  /\ UNCHANGED <<inputs, platform, owners, approverOwners, commentMessage, labelConfigs,
                 approvers, approved, mergeCommand, removing, ret, fileIdx, failed,
                 exitCode, outcome>>

(* canBeMerged: hasMergeCommand *)
ApplyIndexHasMergeCommand ==
  /\ pc = "indexMergeCommand"
  /\ mergeCommand' = index_hasMergeCommand(prComments, prReviews, pr, owners)
  /\ pc' = "indexCanBeMerged"
  /\ UNCHANGED <<inputs, platform, owners, approverOwners, commentMessage, labelConfigs,
                 approvers, approved, checkSuiteGreen, removing, ret, fileIdx, failed,
                 exitCode, outcome>>

(* run: the result of canBeMerged *)
ApplyCanBeMerged ==
  /\ pc = "indexCanBeMerged"
  /\ approvers' = index_getApprovers(prComments, prReviews, pr)
  /\ \E action \in GITHUB_ACTIONS :
       approved' = canBeMerged(checkRuns, action, prComments, prReviews, pr,
                               codeowners, owners, changedFiles)
  /\ pc' = "indexDone"
  /\ UNCHANGED <<inputs, platform, owners, approverOwners, commentMessage, labelConfigs,
                 mergeCommand, checkSuiteGreen, removing, ret, fileIdx, failed,
                 exitCode, outcome>>

NextIndex ==
  \/ ApplyGetCodeOwnersAndLabels
  \/ ApplyIndexCheckSuiteGreen
  \/ ApplyIndexHasMergeCommand
  \/ ApplyCanBeMerged

SpecIndex == InitIndex /\ [][NextIndex]_vars

(* a code owner of the changed files other than the PR author wrote /merge *)
OwnerWroteMerge ==
  \/ \E i \in 1..Len(prComments) :
       /\ SaysMerge(prComments[i].body)
       /\ prComments[i].user.login # pr.user.login
       /\ At(prComments[i].user.login) \in Range(owners)
  \/ \E i \in 1..Len(prReviews) :
       /\ SaysMerge(prReviews[i].body)
       /\ prReviews[i].user.login # pr.user.login
       /\ At(prReviews[i].user.login) \in Range(owners)

(* C29: in src/index.js hasMergeCommand reports a merge request whenever a *)
(* code owner of the changed files other than the PR author has written    *)
(* /merge in a comment or a review.                                         *)
C29_IndexMergeCommand ==
  (pc \in {"indexCanBeMerged", "indexDone"} /\ OwnerWroteMerge) => mergeCommand = TRUE

(* another check suite than the bot's own is in progress or has failed *)
OtherSuiteBlocks ==
  \E id \in DOMAIN checkRuns :
    /\ id # OwnSuite
    /\ \/ checkRuns[id].status = "in_progress"
       \/ checkRuns[id].status = "completed" /\ checkRuns[id].conclusion = "failure"

(* C30: in src/index.js isCheckSuiteGreen returns false whenever a check   *)
(* suite other than the bot's own is in progress or completed with a        *)
(* failure, and canBeMerged then does not authorize the merge.              *)
C30_IndexCheckSuites ==
  /\ (pc \in {"indexMergeCommand", "indexCanBeMerged", "indexDone"} /\ OtherSuiteBlocks)
       => checkSuiteGreen = "false"
  /\ (pc = "indexDone" /\ OtherSuiteBlocks) => ~approved.ok

(* an approval in the sense of index.js: by a comment, or by a review *)
IndexApprovingComment(c) ==
  SaysLgtm(c.body) /\ c.user.login # pr.user.login /\ ~CarriesMarker(c.body)
IndexApprovingReview(r) ==
  /\ r.state = "APPROVED" \/ SaysLgtm(r.body)
  /\ r.user.login # pr.user.login
  /\ ~CarriesMarker(r.body)

(* C31: in src/index.js getApprovers returns the author of a review only   *)
(* if the review is APPROVED or says /lgtm, is not by the PR author and     *)
(* does not carry the marker: the PR author is never an approver, and a     *)
(* review that neither approves nor says /lgtm makes nobody an approver.    *)
C31_IndexApprovers ==
  pc = "indexDone" =>
    /\ pr.user.login \notin Range(approvers)
    /\ \A u \in Range(approvers) :
         \/ \E i \in 1..Len(prComments) :
              prComments[i].user.login = u /\ IndexApprovingComment(prComments[i])
         \/ \E i \in 1..Len(prReviews) :
              prReviews[i].user.login = u /\ IndexApprovingReview(prReviews[i])

(* ------------------------------------------------------------------ *)
(* The bot's own comments                                              *)
(* ------------------------------------------------------------------ *)
(* the comments of the bot: published, or sent and not yet published *)
PostedByBot ==
  {c \in Range(prComments) \cup Range(pending) : c.user.login = botLogin}
(* a comment of the bot without the marker: an acknowledgement or a notice *)
UnmarkedBotComment ==
  \E c \in PostedByBot : ~Includes(c.body, ourSignature)
(* a comment of the bot that names both commands: the managed comment *)
CommandNamingBotComment ==
  \E c \in PostedByBot : Match(c.body, lgtmRegex) /\ Match(c.body, mergeRegex)

(* C32: no comment posted by the bot is a valid approval or a valid merge  *)
(* request, neither against the list of approver owners nor against the   *)
(* empty list of the open mode.                                            *)
C32_BotCommentsNeverCount ==
  \A c \in PostedByBot : \A os \in {<<>>, approverOwners} :
    /\ ~isCommentValid(c.body, c.user.login, lgtmRegex, os, pr, FALSE)
    /\ ~isCommentValid(c.body, c.user.login, mergeRegex, os, pr, FALSE)

C32_Witness ==
  /\ pc = "done"
  /\ UnmarkedBotComment
  /\ CommandNamingBotComment
  /\ approverOwners = <<>>
  /\ owners # <<>>

(* ------------------------------------------------------------------ *)
(* Two runs on one pull request                                        *)
(* ------------------------------------------------------------------ *)
(* Two runs of the decision step of run for the same pull request, each *)
(* started by its own event. pc, labelConfigs, removing and fileIdx     *)
(* hold one value per run; fileIdx is the number of comments the run    *)
(* lists. The calls of the two setLabels interleave on the platform.    *)
Runs == {1, 2}

(* run, lines 500-538: the labels pushed before the setLabels of the   *)
(* decision                                                             *)
targetLabels(cs, rs, p, co, os, files) ==
  IF ~isApproved(cs, rs, p, co, os, files).ok
    THEN pushLabel(<<>>, needsLgtmLabel)
    ELSE IF ~hasMergeCommand(cs, rs, p, os)
           THEN pushLabel(pushLabel(<<>>, lgtmLabel), needsMergeLabel)
           ELSE pushLabel(pushLabel(<<>>, lgtmLabel), mergeReadyLabel)

InitConcurrent ==
  /\ pc = [r \in Runs |-> "decide"]
  /\ pr \in {[user |-> [login |-> a]] : a \in Authors}
  /\ changedFiles = <<README>>
  /\ codeowners \in Manifests(changedFiles)
  /\ owners = getCodeOwners(changedFiles, codeowners)
  /\ owners # <<>>
  /\ approverOwners = SelectSeq(owners, LAMBDA o : o # At(pr.user.login))
  /\ prComments \in SeqsUpTo(CommentChoices, MaxComments)
  /\ prReviews = <<>>
  /\ fileIdx \in [Runs -> 0..Len(prComments)]
  /\ eventName = "issue_comment"
  /\ payload = [pull_request |-> TRUE]
  /\ prLabels \in PriorLabelSets
  /\ priorLabels = prLabels
  /\ repoLabels = prLabels
  /\ labelConfigs = [r \in Runs |-> <<>>]
  /\ removing = [r \in Runs |-> <<>>]
  /\ pending = <<>>
  /\ prAssignees = {}
  /\ checkRuns = InitialRuns(eventName)
  /\ merged = FALSE
  /\ mergeCalls = 0
  /\ mergeMethod = [input |-> "", call |-> "none"]
  /\ openPullRequests = <<>>
  /\ commentMessage = <<>>
  /\ approvers = <<>>
  /\ approved = [ok |-> FALSE, approvers |-> <<>>]
  /\ mergeCommand = FALSE
  /\ checkSuiteGreen = "pending"
  /\ ret = "none"
  /\ failed = FALSE
  /\ exitCode = -1
  /\ outcome = "running"

ConcurrentFixed ==
  <<inputs, prComments, prReviews, pending, prAssignees, checkRuns, merged,
    mergeCalls, mergeMethod, openPullRequests, owners, approverOwners,
    commentMessage, approvers, approved, mergeCommand, checkSuiteGreen, ret,
    fileIdx, exitCode, outcome>>

(* isApproved and hasMergeCommand of run r, on the comments it lists *)
ConcurrentDecide(r) ==
  /\ pc[r] = "decide"
  /\ labelConfigs' =
       [labelConfigs EXCEPT ![r] =
          targetLabels(SubSeq(prComments, 1, fileIdx[r]), prReviews, pr,
                       codeowners, approverOwners, changedFiles)]
  /\ pc' = [pc EXCEPT ![r] = "setLabels"]
  /\ UNCHANGED <<ConcurrentFixed, prLabels, repoLabels, removing, failed>>

(* setLabels of run r: createLabel and addLabels *)
ConcurrentAddLabels(r) ==
  /\ pc[r] = "setLabels"
  /\ repoLabels' = repoLabels \cup Range(labelConfigs[r])
  /\ prLabels' = addLabels(prLabels, labelConfigs[r])
  /\ removing' = [removing EXCEPT ![r] = removingLabels(labelConfigs[r])]
  /\ pc' = [pc EXCEPT ![r] = "removeLabels"]
  /\ UNCHANGED <<ConcurrentFixed, labelConfigs, failed>>

(* setLabels of run r: one removeLabel call that succeeds *)
ConcurrentRemoveLabel(r) ==
  /\ pc[r] = "removeLabels"
  /\ Head(removing[r]) \in prLabels
  /\ prLabels' = prLabels \ {Head(removing[r])}
  /\ removing' = [removing EXCEPT ![r] = Tail(removing[r])]
  /\ pc' = [pc EXCEPT ![r] = IF Tail(removing[r]) = <<>> THEN "done"
                              ELSE "removeLabels"]
  /\ UNCHANGED <<ConcurrentFixed, labelConfigs, repoLabels, failed>>

(* setLabels of run r: one removeLabel call that throws and is logged;  *)
(* failed records that a call threw while its label was attached        *)
ConcurrentRemoveLabelFails(r) ==
  /\ pc[r] = "removeLabels"
  /\ removing' = [removing EXCEPT ![r] = Tail(removing[r])]
  /\ failed' = (failed \/ Head(removing[r]) \in prLabels)
  /\ pc' = [pc EXCEPT ![r] = IF Tail(removing[r]) = <<>> THEN "done"
                              ELSE "removeLabels"]
  /\ UNCHANGED <<ConcurrentFixed, labelConfigs, prLabels, repoLabels>>

NextConcurrent ==
  \E r \in Runs :
    \/ ConcurrentDecide(r)
    \/ ConcurrentAddLabels(r)
    \/ ConcurrentRemoveLabel(r)
    \/ ConcurrentRemoveLabelFails(r)

SpecConcurrent == InitConcurrent /\ [][NextConcurrent]_vars

BothRunsDone == \A r \in Runs : pc[r] = "done"

(* C33: once two concurrent runs have both completed, and no removeLabel *)
(* call was refused for an attached label, the vocabulary labels of the   *)
(* PR are the target set of one of the two runs: no mixture of the two    *)
(* targets, and never no status label at all.                             *)
C33_ConcurrentLabels ==
  (BothRunsDone /\ ~failed) =>
    \E r \in Runs : prLabels \cap Vocabulary = Range(labelConfigs[r])

(* ------------------------------------------------------------------ *)
(* Labels outside the vocabulary                                       *)
(* ------------------------------------------------------------------ *)
(* C34: every step of a run adds only labels of its target set and      *)
(* removes only labels of the five-label vocabulary; the labels outside *)
(* the vocabulary stay as they were.                                     *)
C34_OtherLabelsUntouched ==
  [][/\ prLabels' \ prLabels \subseteq Range(labelConfigs)
     /\ prLabels \ prLabels' \subseteq Vocabulary
     /\ prLabels' \ Vocabulary = prLabels \ Vocabulary]_vars

C34_Witness ==
  /\ pc = "done"
  /\ priorLabels = {"bug", "lgtm", "merge-ready", "needs-manual-merge"}
  /\ prLabels = {"bug", "needs-lgtm"}

(* ------------------------------------------------------------------ *)
(* Comments and reviews from outside approverOwners                    *)
(* ------------------------------------------------------------------ *)
(* written by a principal of approverOwners who is not the PR author *)
ByApproverOwner(x) ==
  /\ ArrIncludes(approverOwners, At(x.user.login))
  /\ x.user.login # pr.user.login
(* the history without what the others and the PR author wrote *)
OwnerComments == SelectSeq(prComments, ByApproverOwner)
OwnerReviews == SelectSeq(prReviews, ByApproverOwner)
(* the history holds a signal of somebody outside approverOwners *)
OutsiderSignals ==
  \/ \E i \in 1..Len(prComments) :
       /\ ~ByApproverOwner(prComments[i])
       /\ SaysLgtm(prComments[i].body) \/ SaysMerge(prComments[i].body)
       /\ ~CarriesMarker(prComments[i].body)
  \/ \E i \in 1..Len(prReviews) :
       /\ ~ByApproverOwner(prReviews[i])
       /\ prReviews[i].state = "APPROVED" \/ SaysMerge(prReviews[i].body)
       /\ ~CarriesMarker(prReviews[i].body)

(* C35: with a non-empty approverOwners, the verdict, the merge command  *)
(* and the target labels of a history are those of the same history      *)
(* without the comments and reviews written outside approverOwners or by *)
(* the PR author.                                                         *)
C35_OutsidersHaveNoInfluence ==
  (pc = "evalDone" /\ approverOwners # <<>>) =>
    /\ approved = isApproved(OwnerComments, OwnerReviews, pr, codeowners,
                             approverOwners, changedFiles)
    /\ mergeCommand = hasMergeCommand(OwnerComments, OwnerReviews, pr,
                                      approverOwners)
    /\ targetLabels(prComments, prReviews, pr, codeowners, approverOwners,
                    changedFiles)
         = targetLabels(OwnerComments, OwnerReviews, pr, codeowners,
                        approverOwners, changedFiles)

C35_Witness ==
  /\ pc = "evalDone"
  /\ approverOwners # <<>>
  /\ OutsiderSignals
  /\ approved.ok
  /\ mergeCommand

(* ------------------------------------------------------------------ *)
(* The acknowledgement and the evaluator                               *)
(* ------------------------------------------------------------------ *)
(* the run was started by a comment or by a review *)
TriggeredBySignal == eventName \in {"issue_comment", "pull_request_review"}
(* the state of the review that started the run *)
TriggerApproves ==
  eventName = "pull_request_review" /\ prReviews[Len(prReviews)].state = "APPROVED"
(* getApprovers and hasMergeCommand on the comment or review that started *)
(* the run                                                                 *)
TriggerCountsAsApproval ==
  isCommentValid(getPayloadBody, payload.sender.login, lgtmRegex,
                 approverOwners, pr, TriggerApproves)
TriggerCountsAsMergeRequest ==
  isCommentValid(getPayloadBody, payload.sender.login, mergeRegex,
                 approverOwners, pr, FALSE)
(* what the acknowledgement of the run says *)
AcknowledgedApproval ==
  /\ commentMessage # <<>>
  /\ Head(commentMessage) \in {"Approval received from ",
                               "Approval and merge request received from "}
AcknowledgedMergeRequest ==
  /\ commentMessage # <<>>
  /\ Head(commentMessage) \in {"Merge request received from ",
                               "Approval and merge request received from "}

(* C36: a run started by a comment or a review acknowledges an approval  *)
(* exactly when getApprovers counts that comment or review, and a merge   *)
(* request exactly when hasMergeCommand counts it.                        *)
C36_AcknowledgementAgrees ==
  (EvaluatedRun /\ TriggeredBySignal) =>
    /\ AcknowledgedApproval <=> TriggerCountsAsApproval
    /\ AcknowledgedMergeRequest <=> TriggerCountsAsMergeRequest

(* ------------------------------------------------------------------ *)
(* The labels of a blocked gate                                        *)
(* ------------------------------------------------------------------ *)
(* C37: a run whose gate is blocked by a failed check run changes no     *)
(* label once it polls: lgtm and merge-ready, set before the poll, stay   *)
(* on the PR, the run exits non-zero and no merge call is made.           *)
C37_BlockedGateKeepsLabels ==
  /\ [](outcome = "checks_failed" =>
          /\ pc = "done"
          /\ exitCode # 0
          /\ mergeCalls = 0
          /\ ~merged
          /\ {lgtmLabel, mergeReadyLabel} \subseteq prLabels)
  /\ [][(pc \in {"poll", "sleep"} \/ outcome = "checks_failed")
          => prLabels' = prLabels]_vars

C37_Witness ==
  /\ outcome = "checks_failed"
  /\ priorLabels = {"bug", "needs-lgtm"}
  /\ prLabels = {"bug", "lgtm", "merge-ready"}
  /\ checkRuns["build"].conclusion = "failure"

(* ------------------------------------------------------------------ *)
(* A run after a push                                                  *)
(* ------------------------------------------------------------------ *)
(* the changed files of the PR after a push *)
PushedFileSets == {<<README>>, <<WORKFLOW>>, <<README, WORKFLOW>>}

(* a push to the PR between two runs: the changed files are listed anew  *)
(* by the next run, the comments and reviews stay. ret records the push.  *)
Push ==
  /\ pc = "evalDone"
  /\ ret = "none"
  /\ changedFiles' \in PushedFileSets
  /\ ret' = "push"
  /\ pc' = "evalOwners"
  /\ UNCHANGED <<pr, codeowners, eventName, payload, priorLabels, platform,
                 owners, approverOwners, commentMessage, labelConfigs, approvers,
                 approved, mergeCommand, checkSuiteGreen, removing, fileIdx,
                 failed, exitCode, outcome>>

NextPush == ApplyGetCodeOwners \/ ApplyIsApproved \/ ApplyHasMergeCommand \/ Push

SpecPush == InitEval /\ [][NextPush]_vars

(* the run after the push has evaluated *)
EvaluatedAfterPush == pc = "evalDone" /\ ret = "push"
(* approverOwners of the run before the push, for the files of InitEval *)
ApproverOwnersBeforePush ==
  SelectSeq(getCodeOwners(<<README, WORKFLOW>>, codeowners),
            LAMBDA o : o # At(pr.user.login))
(* x was a valid signal for the run before the push, and its author is   *)
(* in approverOwners of the run after it                                  *)
StillEntitled(x, regex, extra_validation) ==
  /\ isCommentValid(x.body, x.user.login, regex, ApproverOwnersBeforePush, pr,
                    extra_validation)
  /\ ArrIncludes(approverOwners, At(x.user.login))

(* C38: an approval or a merge request that was valid before a push is   *)
(* counted by the run after the push whenever its author is in            *)
(* approverOwners of the new changed files.                               *)
C38_SignalsSurvivePush ==
  EvaluatedAfterPush =>
    /\ \A i \in 1..Len(prComments) :
         /\ StillEntitled(prComments[i], lgtmRegex, FALSE)
              => prComments[i].user.login \in Range(approvers)
         /\ StillEntitled(prComments[i], mergeRegex, FALSE) => mergeCommand
    /\ \A i \in 1..Len(prReviews) :
         /\ StillEntitled(prReviews[i], lgtmRegex, prReviews[i].state = "APPROVED")
              => prReviews[i].user.login \in Range(approvers)
         /\ StillEntitled(prReviews[i], mergeRegex, FALSE) => mergeCommand

C38_Witness ==
  /\ EvaluatedAfterPush
  /\ changedFiles = <<WORKFLOW>>
  /\ Len(prComments) = 2
  /\ StillEntitled(prComments[1], lgtmRegex, FALSE)
  /\ ~StillEntitled(prComments[2], lgtmRegex, FALSE)
  /\ \E i \in 1..Len(prReviews) : StillEntitled(prReviews[i], mergeRegex, FALSE)
  /\ ApproverOwnersBeforePush # approverOwners

====
